---- MODULE Spec2Model ----
(***************************************************************************)
(* A model of geotable: tables of geometries with a per-row coordinate     *)
(* reference system (CRS), the CSV reader and writer with their `.proj4`   *)
(* sidecar file, the geometry column resolver and the CRS transforms.      *)
(*                                                                         *)
(* Data representation                                                     *)
(*   - a proj4 string is a TLA+ string; normalize_proj4 maps a string to   *)
(*     its canonical form (GDAL's ExportToProj4), Proj4Error says which    *)
(*     exception GDAL raises when it cannot be imported;                   *)
(*   - a geometry is [type, x, y, hasZ]; reprojection shifts x and y by    *)
(*     the difference of the false origins of the two CRSs, so that a      *)
(*     geometry transformed from the wrong source CRS gets wrong           *)
(*     coordinates;                                                        *)
(*   - a table (pandas DataFrame) is [columns, rows]: the ordered column   *)
(*     names and one function column name -> cell per row;                 *)
(*   - the disk maps each path to a file record.                           *)
(***************************************************************************)
EXTENDS Integers, Sequences, FiniteSets, Bags, TLC

VARIABLES
    disk,       \* path -> file
    lastSave,   \* history: the most recent save_csv call and what it found
    op,         \* the most recent operation and its arguments
    ret         \* what that operation returned or raised

vars == <<disk, lastSave, op, ret>>

(***************************************************************************)
(* Bounds of the model.                                                    *)
(***************************************************************************)
MaxRows == 2        \* rows of a table handed to save_csv / of an authored CSV
MaxColumns == 4     \* columns of a table handed to _get_geometry_columns

(***************************************************************************)
(* Python values.                                                          *)
(***************************************************************************)
None == "None"      \* an argument left out
NaN == "NaN"        \* a missing cell of a DataFrame (float nan)

Falsy(x) == x = None \/ x = ""

\* Python's `a or b`
Or(a, b) == IF Falsy(a) THEN b ELSE a

Range(s) == {s[i] : i \in 1..Len(s)}

\* F(v), with v evaluated once and then shared by its uses in F
Let1(v, F(_)) == CHOOSE r \in {F(x) : x \in {v}} : TRUE

\* The sequence s with its elements evaluated
Strict(s) == s \o <<>>

SeqsUpTo(S, n) == UNION {[1..k -> S] : k \in 0..n}

RECURSIVE SeqToBag(_)
SeqToBag(s) ==
    IF s = <<>> THEN EmptyBag ELSE SetToBag({Head(s)}) (+) SeqToBag(Tail(s))

(***************************************************************************)
(* Proj4 strings (projections.py).                                         *)
(***************************************************************************)
LONGITUDE_LATITUDE_PROJ4 == "+proj=longlat +datum=WGS84 +no_defs"
LONGLAT_ELLPS_PROJ4 == "+proj=longlat +ellps=WGS84 +datum=WGS84 +no_defs"
UTM17_PROJ4 == "+proj=utm +zone=17 +datum=WGS84 +units=m +no_defs"
UTM_PROJ4 == "+proj=utm +zone=17 +ellps=WGS84 +datum=WGS84 +units=m +no_defs"
SPHERICAL_MERCATOR_PROJ4 ==
    "+proj=merc +a=6378137 +b=6378137 +lat_ts=0 +lon_0=0 +x_0=0 +y_0=0 +k=1 +units=m +nadgrids=@null +wktext +no_defs"

\* The strings GDAL can import.
ParseableProj4 ==
    {LONGITUDE_LATITUDE_PROJ4, LONGLAT_ELLPS_PROJ4, UTM17_PROJ4, UTM_PROJ4,
     SPHERICAL_MERCATOR_PROJ4}

\* _get_spatial_reference_from_proj4: "" when the string imports, else the
\* exception raised (a float nan is refused by the binding with TypeError,
\* an unparseable string is turned into SpatialReferenceError).
Proj4Error(proj4) ==
    IF proj4 = NaN THEN "TypeError"
    ELSE IF proj4 \notin ParseableProj4 THEN "SpatialReferenceError"
    ELSE ""

\* normalize_proj4 of a string that imports: GDAL's canonical export.
normalize_proj4(proj4) ==
    CASE proj4 = LONGLAT_ELLPS_PROJ4 -> LONGITUDE_LATITUDE_PROJ4
      [] proj4 = UTM_PROJ4 -> UTM17_PROJ4
      [] OTHER -> proj4

\* Lexicographic order of the strings (pandas groupby sorts its keys).
Proj4Order ==
    <<"", LONGITUDE_LATITUDE_PROJ4, LONGLAT_ELLPS_PROJ4,
      SPHERICAL_MERCATOR_PROJ4, UTM17_PROJ4, UTM_PROJ4, "x">>

Proj4Rank(proj4) == CHOOSE i \in 1..Len(Proj4Order) : Proj4Order[i] = proj4

(***************************************************************************)
(* Geometries and their reprojection.                                      *)
(***************************************************************************)
Point(x, y) == [type |-> "Point", x |-> x, y |-> y, hasZ |-> FALSE]

\* A line, by the vertex that stands for its coordinates
LineString(x, y) == [type |-> "LineString", x |-> x, y |-> y, hasZ |-> FALSE]

\* Origin of a CRS's coordinates, in a common frame: the coordinates of a place
\* in CRS c are the place's coordinates plus Origin(c).
Origin(proj4) ==
    CASE normalize_proj4(proj4) = LONGITUDE_LATITUDE_PROJ4 -> 0
      [] normalize_proj4(proj4) = UTM17_PROJ4 -> 10
      [] normalize_proj4(proj4) = SPHERICAL_MERCATOR_PROJ4 -> 20

\* gdal_geometry.Transform(coordinate_transformation)
Reproject(g, source_proj4, target_proj4) ==
    [g EXCEPT !.x = @ - Origin(source_proj4) + Origin(target_proj4),
              !.y = @ - Origin(source_proj4) + Origin(target_proj4)]

\* _get_coordinate_transformation: the transformation object, or the error of
\* the first string that does not import.
_get_coordinate_transformation(source_proj4, target_proj4) ==
    IF Proj4Error(source_proj4) # ""
    THEN [kind |-> "error", error |-> Proj4Error(source_proj4)]
    ELSE IF Proj4Error(target_proj4) # ""
    THEN [kind |-> "error", error |-> Proj4Error(target_proj4)]
    ELSE [kind |-> "transformation",
          source |-> source_proj4, target |-> target_proj4]

\* A float nan is equal to nothing, itself included.
PyEq(a, b) == a = b /\ a # NaN

\* _get_transform_gdal_geometry with the two CRSs compared by canonical form
_get_transform_gdal_geometry_canonical(source_proj4, target_proj4) ==
    IF Falsy(target_proj4)
       \/ (Proj4Error(source_proj4) = "" /\ Proj4Error(target_proj4) = ""
           /\ normalize_proj4(source_proj4) = normalize_proj4(target_proj4))
    THEN [kind |-> "identity"]
    ELSE _get_coordinate_transformation(source_proj4, target_proj4)

\* _get_transform_gdal_geometry: the identity when there is no target or the
\* two strings are equal, else a function built on a transformation object.
_get_transform_gdal_geometry(source_proj4, target_proj4) ==
    IF Falsy(target_proj4) \/ PyEq(source_proj4, target_proj4)
    THEN [kind |-> "identity"]
    ELSE _get_coordinate_transformation(source_proj4, target_proj4)

\* Well-known-binary: the exact coordinates, packed.
ToWkb(g) == <<g.type, g.hasZ, g.x, g.y>>
FromWkb(b) == [type |-> b[1], hasZ |-> b[2], x |-> b[3], y |-> b[4]]

\* Calling the function _get_transform_gdal_geometry returned.
transform_gdal_geometry(f, g) ==
    IF f.kind = "identity" THEN g ELSE Reproject(g, f.source, f.target)

\* get_transform_shapely_geometry: the same function, through WKB both ways.
get_transform_shapely_geometry(source_proj4, target_proj4) ==
    _get_transform_gdal_geometry(source_proj4, target_proj4)

transform_shapely_geometry(f, g) ==
    FromWkb(ToWkb(transform_gdal_geometry(f, FromWkb(ToWkb(g)))))

(***************************************************************************)
(* Well-known-text.                                                        *)
(***************************************************************************)
WktTags == {"POINT", "LINESTRING", "POLYGON"}

WktTag(type) ==
    CASE type = "Point" -> "POINT"
      [] type = "LineString" -> "LINESTRING"
      [] type = "Polygon" -> "POLYGON"

WktType(tag) ==
    CASE tag = "POINT" -> "Point"
      [] tag = "LINESTRING" -> "LineString"
      [] tag = "POLYGON" -> "Polygon"

\* g.wkt
ToWkt(g) == [tag |-> WktTag(g.type), z |-> g.hasZ, x |-> g.x, y |-> g.y]

\* wkt.loads succeeds on the texts with a known tag
WktParseable(text) == text.tag \in WktTags

\* A text that is no well-known-text, the empty text, and the missing cell
\* (float nan) that a CSV reader makes of the empty text
BadWkt == [tag |-> "x", z |-> FALSE, x |-> 0, y |-> 0]
EmptyWkt == [tag |-> "", z |-> FALSE, x |-> 0, y |-> 0]
MissingWkt == [tag |-> NaN, z |-> FALSE, x |-> 0, y |-> 0]

FromWkt(text) ==
    [type |-> WktType(text.tag), hasZ |-> text.z, x |-> text.x, y |-> text.y]

\* flip_xy
flip_xy(g) == [g EXCEPT !.x = g.y, !.y = g.x]

\* drop_z
drop_z(g) == [g EXCEPT !.hasZ = FALSE]

(***************************************************************************)
(* Column names.  A name is a string; Chars spells the names the model     *)
(* uses, so that _normalize_column_name is computed character by           *)
(* character.                                                              *)
(***************************************************************************)
Chars(column_name) ==
    CASE column_name = "WKT" -> <<"W", "K", "T">>
      [] column_name = "wkt" -> <<"w", "k", "t">>
      [] column_name = "Longitude_Latitude_WKT" -> <<"L", "o", "n", "g", "i", "t", "u", "d", "e", "_", "L", "a", "t", "i", "t", "u", "d", "e", "_", "W", "K", "T">>
      [] column_name = "Latitude_Longitude_WKT" -> <<"L", "a", "t", "i", "t", "u", "d", "e", "_", "L", "o", "n", "g", "i", "t", "u", "d", "e", "_", "W", "K", "T">>
      [] column_name = "Longitude" -> <<"L", "o", "n", "g", "i", "t", "u", "d", "e">>
      [] column_name = "Latitude" -> <<"L", "a", "t", "i", "t", "u", "d", "e">>
      [] column_name = "start_longitude" -> <<"s", "t", "a", "r", "t", "_", "l", "o", "n", "g", "i", "t", "u", "d", "e">>
      [] column_name = "start_latitude" -> <<"s", "t", "a", "r", "t", "_", "l", "a", "t", "i", "t", "u", "d", "e">>
      [] column_name = "LON" -> <<"L", "O", "N">>
      [] column_name = "LAT" -> <<"L", "A", "T">>
      [] column_name = "X" -> <<"X">>
      [] column_name = "Y" -> <<"Y">>
      [] column_name = "name" -> <<"n", "a", "m", "e">>
      [] column_name = "fid" -> <<"f", "i", "d">>
      [] column_name = "geometry_object" -> <<"g", "e", "o", "m", "e", "t", "r", "y", "_", "o", "b", "j", "e", "c", "t">>
      [] column_name = "geometry_layer" -> <<"g", "e", "o", "m", "e", "t", "r", "y", "_", "l", "a", "y", "e", "r">>
      [] column_name = "geometry_proj4" -> <<"g", "e", "o", "m", "e", "t", "r", "y", "_", "p", "r", "o", "j", "4">>
      [] column_name = "geometry_wkb" -> <<"g", "e", "o", "m", "e", "t", "r", "y", "_", "w", "k", "b">>
      [] column_name = "" -> <<>>
      [] column_name = "Unnamed: 1" -> <<"U", "n", "n", "a", "m", "e", "d", ":", " ", "1">>

UpperCase == <<"A", "B", "C", "D", "E", "F", "G", "H", "I", "J", "K", "L", "M",
               "N", "O", "P", "Q", "R", "S", "T", "U", "V", "W", "X", "Y", "Z">>
LowerCase == <<"a", "b", "c", "d", "e", "f", "g", "h", "i", "j", "k", "l", "m",
               "n", "o", "p", "q", "r", "s", "t", "u", "v", "w", "x", "y", "z">>

Lower(c) ==
    IF \E i \in 1..Len(UpperCase) : UpperCase[i] = c
    THEN LowerCase[CHOOSE i \in 1..Len(UpperCase) : UpperCase[i] = c]
    ELSE c

NotUnderscore(c) == c # "_"

\* _normalize_column_name: str(x).lower().replace('_', '')
_normalize_column_name(x) ==
    SelectSeq([i \in 1..Len(Chars(x)) |-> Lower(Chars(x)[i])], NotUnderscore)

EndsWith(s, suffix) ==
    /\ Len(s) >= Len(suffix)
    /\ SubSeq(s, Len(s) - Len(suffix) + 1, Len(s)) = suffix

IsWkt(n) == n = Chars("wkt")
IsLongitudeLatitudeWkt(n) == n = <<"l", "o", "n", "g", "i", "t", "u", "d", "e",
    "l", "a", "t", "i", "t", "u", "d", "e", "w", "k", "t">>
IsLatitudeLongitudeWkt(n) == n = <<"l", "a", "t", "i", "t", "u", "d", "e",
    "l", "o", "n", "g", "i", "t", "u", "d", "e", "w", "k", "t">>
IsLongitude(n) == n = <<"l", "o", "n", "g", "i", "t", "u", "d", "e">>
IsLatitude(n) == n = <<"l", "a", "t", "i", "t", "u", "d", "e">>
EndsWithLongitude(n) == EndsWith(n, <<"l", "o", "n", "g", "i", "t", "u", "d", "e">>)
EndsWithLatitude(n) == EndsWith(n, <<"l", "a", "t", "i", "t", "u", "d", "e">>)
IsLon(n) == n = <<"l", "o", "n">>
IsLat(n) == n = <<"l", "a", "t">>
IsX(n) == n = <<"x">>
IsY(n) == n = <<"y">>

\* The names the model uses, and their normalised forms computed once.
ColumnNames ==
    {"WKT", "wkt", "Longitude_Latitude_WKT", "Latitude_Longitude_WKT",
     "Longitude", "Latitude", "start_longitude", "start_latitude", "LON", "LAT",
     "X", "Y", "name", "fid", "geometry_object", "geometry_layer",
     "geometry_proj4", "geometry_wkb", "", "Unnamed: 1"}

RECURSIVE NormalizedOver(_)
NormalizedOver(S) ==
    IF S = {} THEN <<>>
    ELSE LET c == CHOOSE c \in S : TRUE
         IN  (c :> _normalize_column_name(c)) @@ NormalizedOver(S \ {c})

Normalized == NormalizedOver(ColumnNames)

\* The positions of the columns the loop of _get_paired_columns assigns to
\* x_column (is_x holds) and to y_column (is_x fails, is_y holds).
XPositions(column_names, is_x(_)) ==
    {i \in 1..Len(column_names) : is_x(Normalized[column_names[i]])}

YPositions(column_names, is_x(_), is_y(_)) ==
    {i \in 1..Len(column_names) :
        /\ ~is_x(Normalized[column_names[i]])
        /\ is_y(Normalized[column_names[i]])}

Max(S) == CHOOSE i \in S : \A j \in S : j <= i
Min(S) == CHOOSE i \in S : \A j \in S : i <= j

\* _get_paired_columns: each later match overwrites the earlier one; the pair
\* [x_column, y_column] when both were found, else nothing (None).
_get_paired_columns(column_names, is_x(_), is_y(_)) ==
    Let1(XPositions(column_names, is_x), LAMBDA xs :
    Let1(YPositions(column_names, is_x, is_y), LAMBDA ys :
        IF xs # {} /\ ys # {}
        THEN <<column_names[Max(xs)], column_names[Max(ys)]>>
        ELSE <<>>))

WktPositions(column_names) ==
    {i \in 1..Len(column_names) :
        \/ IsWkt(Normalized[column_names[i]])
        \/ IsLongitudeLatitudeWkt(Normalized[column_names[i]])
        \/ IsLatitudeLongitudeWkt(Normalized[column_names[i]])}

\* The columns found, last one first
FoundReversed(columns) ==
    [ok |-> TRUE, columns |-> [i \in 1..Len(columns) |-> columns[Len(columns) + 1 - i]]]

Found(columns) == [ok |-> TRUE, columns |-> columns]

Raise(error, message) == [ok |-> FALSE, error |-> error, message |-> message]

\* _get_geometry_columns: [ok |-> TRUE, columns] or the GeoTableError raised.
_get_geometry_columns(column_names) ==
    Let1(WktPositions(column_names), LAMBDA wkts :
    IF wkts # {} THEN Found(<<column_names[Min(wkts)]>>) ELSE
    Let1(_get_paired_columns(column_names, IsLongitude, IsLatitude), LAMBDA p2 :
    IF p2 # <<>> THEN Found(p2) ELSE
    Let1(_get_paired_columns(column_names, EndsWithLongitude, EndsWithLatitude),
         LAMBDA p3 :
    IF p3 # <<>> THEN Found(p3) ELSE
    Let1(_get_paired_columns(column_names, IsLon, IsLat), LAMBDA p4 :
    IF p4 # <<>> THEN Found(p4) ELSE
    Let1(_get_paired_columns(column_names, IsX, IsY), LAMBDA p5 :
    IF p5 # <<>> THEN Found(p5)
    ELSE Raise("GeoTableError", "geometry columns expected"))))))

(***************************************************************************)
(* Tables: [columns |-> <<names>>, rows |-> <<name -> cell>>].             *)
(***************************************************************************)
HasColumn(t, c) == c \in Range(t.columns)

\* t[c] = values (one per row): a new column goes last
SetColumn(t, c, values) ==
    [columns |-> IF HasColumn(t, c) THEN t.columns ELSE Append(t.columns, c),
     rows |-> Strict([i \in 1..Len(t.rows) |-> (c :> values[i]) @@ t.rows[i]])]

\* t[c] = value (the same for every row)
FillColumn(t, c, value) == SetColumn(t, c, [i \in 1..Len(t.rows) |-> value])

Without(s, S) == SelectSeq(s, LAMBDA c : c \notin S)

\* t.drop(columns=S)
DropColumns(t, S) ==
    [columns |-> Without(t.columns, S),
     rows |-> Strict([i \in 1..Len(t.rows) |->
                 [c \in (DOMAIN t.rows[i]) \ S |-> t.rows[i][c]] @@ <<>>])]

\* t[c].unique(): the distinct cells, a missing cell counting as one value
Unique(t, c) == {t.rows[i][c] : i \in 1..Len(t.rows)}

RECURSIVE Flatten(_)
Flatten(ss) == IF ss = <<>> THEN <<>> ELSE Head(ss) \o Flatten(Tail(ss))

\* The set S of proj4 strings as the sequence of its members in sorted order.
RECURSIVE SortedProj4(_)
SortedProj4(S) ==
    IF S = {} THEN <<>>
    ELSE Let1(CHOOSE p \in S : \A q \in S : Proj4Rank(p) <= Proj4Rank(q),
              LAMBDA first : <<first>> \o SortedProj4(S \ {first}))

\* t.groupby('geometry_proj4'): the keys in sorted order, rows of a missing
\* key left out, each group's rows in table order.
GroupKeys(t) == SortedProj4(Unique(t, "geometry_proj4") \ {NaN})

GroupRows(t, key) == SelectSeq(t.rows, LAMBDA r : r["geometry_proj4"] = key)

\* _has_one_proj4 with the values compared by the CRS they denote
_has_one_proj4_canonical(t) ==
    IF Len(t.rows) < 1 THEN FALSE
    ELSE IF ~HasColumn(t, "geometry_proj4") THEN TRUE
    ELSE Cardinality({normalize_proj4(p) : p \in Unique(t, "geometry_proj4")}) = 1

\* _has_one_proj4
_has_one_proj4(t) ==
    IF Len(t.rows) < 1 THEN FALSE
    ELSE IF ~HasColumn(t, "geometry_proj4") THEN TRUE
    ELSE Cardinality(Unique(t, "geometry_proj4")) = 1

(***************************************************************************)
(* Paths and files.                                                        *)
(***************************************************************************)
Path(stem, ext) == [stem |-> stem, ext |-> ext]

ARCHIVE_EXTENSIONS == {".zip", ".tar.gz", ".tar.xz"}
has_archive_extension(path) == path.ext \in ARCHIVE_EXTENSIONS
get_file_stem(path) == path.stem
replace_file_extension(path, ext) == [path EXCEPT !.ext = ext]

NoFile == [kind |-> "none"]
TextFile(text) == [kind |-> "text", text |-> text]
CsvFile(columns, rows) == [kind |-> "csv", columns |-> columns, rows |-> rows]
Archive(members) == [kind |-> "archive", members |-> members]

\* exists(path) in a folder (a function path -> file)
Exists(folder, path) == path \in DOMAIN folder /\ folder[path].kind # "none"

FileAt(folder, path) == IF path \in DOMAIN folder THEN folder[path] ELSE NoFile

(***************************************************************************)
(* Geometry loaders (_get_load_geometry_object).                           *)
(***************************************************************************)
Loaded(geometry) == [ok |-> TRUE, geometry |-> geometry]

\* The loader's result on one row: [ok |-> TRUE, geometry] or the error.
load_geometry_object(geometry_columns, row) ==
    IF Len(geometry_columns) = 2
    THEN Loaded(Point(row[geometry_columns[1]], row[geometry_columns[2]]))
    ELSE IF row[geometry_columns[1]] = MissingWkt
    THEN Raise("TypeError", "Only str is accepted.")
    ELSE IF ~WktParseable(row[geometry_columns[1]])
    THEN Raise("GeoTableError", "wkt unparseable")
    ELSE IF IsLatitudeLongitudeWkt(Normalized[geometry_columns[1]])
    THEN Loaded(flip_xy(FromWkt(row[geometry_columns[1]])))
    ELSE Loaded(FromWkt(row[geometry_columns[1]]))

(***************************************************************************)
(* Reserved columns (_make_geotable, _ensure_geotable_columns).            *)
(***************************************************************************)
Return(table) == [ok |-> TRUE, table |-> table]

\* The geometry_object column of _make_geotable, built from the geometry
\* columns of a table that has rows.
MakeGeometryObjects(t) ==
    Let1(_get_geometry_columns(t.columns), LAMBDA gc :
    IF ~gc.ok THEN gc ELSE
    Let1(Strict([i \in 1..Len(t.rows) |->
                    load_geometry_object(gc.columns, t.rows[i])]), LAMBDA loaded :
    IF \E i \in 1..Len(loaded) : ~loaded[i].ok
    THEN loaded[Min({i \in 1..Len(loaded) : ~loaded[i].ok})]
    ELSE Return(SetColumn(t, "geometry_object",
                          [i \in 1..Len(loaded) |-> loaded[i].geometry]))))

\* The mutation of _make_geotable: geometry_proj4 is filled in any case
_make_geotable_refilled(t) ==
    Let1(FillColumn(t, "geometry_proj4", LONGITUDE_LATITUDE_PROJ4), LAMBDA t1 :
    Let1(IF HasColumn(t1, "geometry_layer") THEN t1
         ELSE FillColumn(t1, "geometry_layer", ""), LAMBDA t2 :
    IF HasColumn(t2, "geometry_object") THEN Return(t2)
    ELSE IF Len(t2.rows) = 0 THEN Return(FillColumn(t2, "geometry_object", ""))
    ELSE MakeGeometryObjects(t2)))

\* _make_geotable: [ok |-> TRUE, table] or the error raised.
_make_geotable(t) ==
    Let1(IF HasColumn(t, "geometry_proj4") THEN t
         ELSE FillColumn(t, "geometry_proj4", LONGITUDE_LATITUDE_PROJ4), LAMBDA t1 :
    Let1(IF HasColumn(t1, "geometry_layer") THEN t1
         ELSE FillColumn(t1, "geometry_layer", ""), LAMBDA t2 :
    IF HasColumn(t2, "geometry_object") THEN Return(t2)
    ELSE IF Len(t2.rows) = 0 THEN Return(FillColumn(t2, "geometry_object", ""))
    ELSE MakeGeometryObjects(t2)))

\* The layers left as they are
KeepEmptyLayer(t, target_stem) == t

\* self['geometry_layer'].replace('', target_stem, inplace=True)
ReplaceEmptyLayer(t, target_stem) ==
    SetColumn(t, "geometry_layer",
        [i \in 1..Len(t.rows) |->
            IF t.rows[i]["geometry_layer"] = "" THEN target_stem
            ELSE t.rows[i]["geometry_layer"]])

\* The arguments of an operation that has no target_path
NoPath == Path(None, None)

\* The wrapper of _ensure_geotable_columns: the table the operation's body
\* works on, or the error.  target_path is NoPath for an operation that has
\* no such argument (the KeyError branch).
_ensure_geotable_columns(t, target_path) ==
    Let1(_make_geotable(t), LAMBDA made :
    IF ~made.ok \/ target_path = NoPath THEN made
    ELSE Return(ReplaceEmptyLayer(made.table, get_file_stem(target_path))))

(***************************************************************************)
(* The CSV writer (_get_instance_for_csv, GeoTable.to_csv).                *)
(***************************************************************************)
\* The positions at which the column loop of _get_instance_for_csv breaks.
BreakPositions(columns, target_proj4) ==
    {i \in 1..Len(columns) :
        \/ IsWkt(Normalized[columns[i]])
        \/ /\ target_proj4 = LONGITUDE_LATITUDE_PROJ4
           /\ \/ IsLongitudeLatitudeWkt(Normalized[columns[i]])
              \/ IsLatitudeLongitudeWkt(Normalized[columns[i]])}

\* The geometry column of one group, for the column the loop stopped at
CsvGeometries(rows, f, column_name) ==
    [i \in 1..Len(rows) |->
        ToWkt(IF /\ ~IsWkt(Normalized[column_name])
                 /\ IsLatitudeLongitudeWkt(Normalized[column_name])
              THEN flip_xy(transform_shapely_geometry(
                               f, rows[i]["geometry_object"]))
              ELSE transform_shapely_geometry(f, rows[i]["geometry_object"]))]

\* _get_instance_for_csv on one group: [ok |-> TRUE, table] or the error.
_get_instance_for_csv(instance, source_proj4, target_proj4) ==
    Let1(get_transform_shapely_geometry(source_proj4, target_proj4), LAMBDA f :
    IF f.kind = "error" THEN Raise(f.error, "proj4 unparseable") ELSE
    Let1(DropColumns(instance, {"geometry_object"}), LAMBDA popped :
    Let1(BreakPositions(popped.columns, target_proj4), LAMBDA breaks :
    Let1(IF breaks = {} THEN "wkt" ELSE popped.columns[Min(breaks)],
         LAMBDA column_name :
    Let1(SetColumn(popped, column_name,
                   CsvGeometries(instance.rows, f, column_name)), LAMBDA written :
    IF Proj4Error(Or(target_proj4, source_proj4)) # ""
    THEN Raise(Proj4Error(Or(target_proj4, source_proj4)), "proj4 unparseable")
    ELSE Return(FillColumn(written, "geometry_proj4",
                           normalize_proj4(Or(target_proj4, source_proj4)))))))))

RECURSIVE Dedup(_)
Dedup(s) ==
    IF s = <<>> THEN <<>>
    ELSE <<Head(s)>> \o Dedup(Without(Tail(s), {Head(s)}))

\* The rows of a concatenation: a cell a table lacks is missing
ConcatenatedRows(columns, rows) ==
    Strict([i \in 1..Len(rows) |->
               [c \in Range(columns) |->
                   IF c \in DOMAIN rows[i] THEN rows[i][c] ELSE NaN] @@ <<>>])

\* pd.concat(tables, ignore_index=True, sort=False): the rows of each table in
\* turn, the columns in order of first appearance.
concatenate_tables(tables) ==
    Let1(Strict([k \in 1..Len(tables) |-> tables[k].columns]), LAMBDA cs :
    Let1(Strict([k \in 1..Len(tables) |-> tables[k].rows]), LAMBDA rs :
    Let1(Flatten(cs), LAMBDA all :
    Let1(Dedup(all), LAMBDA columns :
    Let1(Flatten(rs), LAMBDA rows :
        [columns |-> columns, rows |-> ConcatenatedRows(columns, rows)])))))

\* The groups of to_csv, each reprojected: a result per key
CsvInstance(self, key, target_proj4) ==
    Let1([columns |-> self.columns, rows |-> GroupRows(self, key)],
         LAMBDA instance :
             _get_instance_for_csv(
                 instance, Or(key, LONGITUDE_LATITUDE_PROJ4), target_proj4))

CsvInstances(self, target_proj4) ==
    Let1(GroupKeys(self), LAMBDA keys :
        Strict([k \in 1..Len(keys) |-> CsvInstance(self, keys[k], target_proj4)]))

\* The groups recombined; `self` when there is no group (pd.concat raises
\* ValueError, which to_csv catches)
CsvTable(self, instances) ==
    IF Len(instances) = 0 THEN self
    ELSE Let1(Strict([k \in 1..Len(instances) |-> instances[k].table]),
              LAMBDA tables : concatenate_tables(tables))

\* excluded_column_names, for the recombined table t
ExcludedColumns(t) ==
    (IF Cardinality(Unique(t, "geometry_layer")) = 1
     THEN {"geometry_layer"} ELSE {})
    \cup (IF Cardinality(Unique(t, "geometry_proj4")) = 1
          THEN {"geometry_proj4"} ELSE {})
    \cup (IF Len(t.rows) = 0
          THEN {"geometry_layer", "geometry_proj4", "geometry_object"} ELSE {})

\* The table handed to DataFrame.to_csv
CsvOutput(t) ==
    Let1(IF Len(t.rows) = 0 THEN FillColumn(t, "wkt", "") ELSE t, LAMBDA t1 :
    Let1(DropColumns(t1, ExcludedColumns(t)), LAMBDA dropped :
        IF Len(dropped.columns) = 1 THEN FillColumn(dropped, "", "")
        ELSE dropped))

\* to_csv without its sidecar write
WritesSidecarNever(t) == FALSE

\* The sidecar write of to_csv: whether open(...).write(...) is reached
WritesSidecar(t) ==
    /\ Cardinality(Unique(t, "geometry_proj4")) = 1
    /\ ~PyEq(CHOOSE p \in Unique(t, "geometry_proj4") : TRUE,
             LONGITUDE_LATITUDE_PROJ4)

SidecarText(t) == CHOOSE p \in Unique(t, "geometry_proj4") : TRUE

\* The file a successful to_csv leaves at target_path.
CsvTarget(t, target_path) ==
    Let1(CsvOutput(t), LAMBDA out :
        IF has_archive_extension(target_path)
        THEN Archive(<<[path |-> Path("geotable", ".csv"),
                        file |-> CsvFile(out.columns, out.rows)]>>)
        ELSE CsvFile(out.columns, out.rows))

Saved(error, folder) == [error |-> error, disk |-> folder]

\* The writes of to_csv once the recombined table t is there
WriteCsv(folder, t, target_path) ==
    Let1(replace_file_extension(target_path, ".proj4"), LAMBDA proj4_path :
    IF WritesSidecar(t) /\ SidecarText(t) = NaN
    THEN Saved("TypeError", [folder EXCEPT ![proj4_path] = TextFile("")])
    ELSE IF WritesSidecar(t)
    THEN Saved("", [folder EXCEPT ![proj4_path] = TextFile(SidecarText(t)),
                                  ![target_path] = CsvTarget(t, target_path)])
    ELSE Saved("", [folder EXCEPT ![target_path] = CsvTarget(t, target_path)]))

\* GeoTable.to_csv (decorated): [error |-> "" or the exception, disk |-> the
\* disk it leaves].
to_csv(folder, table, target_path, target_proj4) ==
    Let1(_ensure_geotable_columns(table, target_path), LAMBDA ensured :
    IF ~ensured.ok THEN Saved(ensured.error, folder) ELSE
    Let1(CsvInstances(ensured.table, target_proj4), LAMBDA instances :
    Let1({k \in 1..Len(instances) : ~instances[k].ok}, LAMBDA failed :
    IF failed # {} THEN Saved(instances[Min(failed)].error, folder) ELSE
    Let1(CsvTable(ensured.table, instances), LAMBDA t :
        WriteCsv(folder, t, target_path)))))

(***************************************************************************)
(* The CSV reader (load_csv_safely, _get_proj4_from_path, from_csv).       *)
(***************************************************************************)
\* Columns whose cells are text: an empty text is read back as a missing cell.
TextColumns == {"geometry_layer", "geometry_proj4", "name", ""}

\* pandas names a column with an empty header after its position
ReadName(c) == IF c = "" THEN "Unnamed: 1" ELSE c

\* Columns whose cells are well-known-text
WktColumns == {"WKT", "wkt", "Longitude_Latitude_WKT", "Latitude_Longitude_WKT"}

ReadCell(c, cell) ==
    IF c \in TextColumns /\ cell = "" THEN NaN
    ELSE IF c \in WktColumns /\ cell = EmptyWkt THEN MissingWkt
    ELSE cell

ReadRow(columns, row) ==
    [n \in {ReadName(c) : c \in Range(columns)} |->
        Let1(CHOOSE c \in Range(columns) : ReadName(c) = n,
             LAMBDA c : ReadCell(c, row[c]))] @@ <<>>

\* pd.read_csv of a CSV file that has a header
ReadCsv(file) ==
    [columns |-> Strict([k \in 1..Len(file.columns) |-> ReadName(file.columns[k])]),
     rows |-> Strict([i \in 1..Len(file.rows) |->
                        ReadRow(file.columns, file.rows[i])])]

Proj4(proj4) == [ok |-> TRUE, proj4 |-> proj4]

\* _get_proj4_from_path with the caller's value ahead of the sidecar file
_get_proj4_from_path_caller_first(folder, source_path, default_proj4) ==
    Let1(replace_file_extension(source_path, ".proj4"), LAMBDA proj4_path :
    IF ~Falsy(default_proj4) THEN Proj4(default_proj4)
    ELSE IF ~Exists(folder, proj4_path) THEN Proj4(LONGITUDE_LATITUDE_PROJ4)
    ELSE IF Proj4Error(folder[proj4_path].text) # ""
    THEN Raise(Proj4Error(folder[proj4_path].text), "proj4 unparseable")
    ELSE Proj4(normalize_proj4(folder[proj4_path].text)))

\* _get_proj4_from_path: [ok |-> TRUE, proj4] or the error raised.
_get_proj4_from_path(folder, source_path, default_proj4) ==
    Let1(replace_file_extension(source_path, ".proj4"), LAMBDA proj4_path :
    IF ~Exists(folder, proj4_path)
    THEN Proj4(Or(default_proj4, LONGITUDE_LATITUDE_PROJ4))
    ELSE IF Proj4Error(folder[proj4_path].text) # ""
    THEN Raise(Proj4Error(folder[proj4_path].text), "proj4 unparseable")
    ELSE Proj4(normalize_proj4(folder[proj4_path].text)))

\* row.get('geometry_proj4', source_proj4): the cell when the column exists
\* (a missing cell is returned as it is), the default only when it does not
RowGet(row, source_proj4) ==
    IF "geometry_proj4" \in DOMAIN row THEN row["geometry_proj4"] ELSE source_proj4

\* The CRS rows are labelled with, after the source CRS alone
RowLabelSource(row_proj4, target_proj4) == normalize_proj4(row_proj4)

\* The CRS rows are labelled with: normalize_proj4(target_proj4 or row_proj4)
RowLabel(row_proj4, target_proj4) == normalize_proj4(Or(target_proj4, row_proj4))

\* f(load_geometry_object(row)) for every row, f built once from row_proj4:
\* the rows' geometries or the first error raised
RowGeometries(geometry_columns, rows, f) ==
    Let1(Strict([i \in 1..Len(rows) |->
                    load_geometry_object(geometry_columns, rows[i])]), LAMBDA loaded :
    IF \E i \in 1..Len(loaded) : ~loaded[i].ok
    THEN loaded[Min({i \in 1..Len(loaded) : ~loaded[i].ok})]
    ELSE [ok |-> TRUE,
          geometries |-> Strict([i \in 1..Len(loaded) |->
              transform_shapely_geometry(f, loaded[i].geometry)])])

\* The table from_csv returns, given its two new columns
FromCsvTable(t, geometry_columns, geometries, proj4s) ==
    Let1(SetColumn(t, "geometry_proj4", proj4s), LAMBDA t1 :
    Let1(SetColumn(t1, "geometry_object", geometries), LAMBDA t2 :
        Return(DropColumns(t2, Range(geometry_columns)))))

\* from_csv when _has_one_proj4(t): one transform, one label
FromCsvOne(t, geometry_columns, row_proj4, target_proj4) ==
    Let1(get_transform_shapely_geometry(row_proj4, target_proj4), LAMBDA f :
    IF f.kind = "error" THEN Raise(f.error, "proj4 unparseable") ELSE
    Let1(RowGeometries(geometry_columns, t.rows, f), LAMBDA transformed :
    IF ~transformed.ok THEN transformed
    ELSE IF Proj4Error(Or(target_proj4, row_proj4)) # ""
    THEN Raise(Proj4Error(Or(target_proj4, row_proj4)), "proj4 unparseable")
    ELSE FromCsvTable(t, geometry_columns, transformed.geometries,
             [i \in 1..Len(t.rows) |-> RowLabel(row_proj4, target_proj4)])))

\* One turn of the loop of from_csv when the rows differ: [ok |-> TRUE,
\* geometry, proj4] or the error raised
FromCsvRow(geometry_columns, row, row_proj4, target_proj4) ==
    Let1(get_transform_shapely_geometry(row_proj4, target_proj4), LAMBDA f :
    IF f.kind = "error" THEN Raise(f.error, "proj4 unparseable") ELSE
    Let1(load_geometry_object(geometry_columns, row), LAMBDA loaded :
    IF ~loaded.ok THEN loaded
    ELSE IF Proj4Error(Or(target_proj4, row_proj4)) # ""
    THEN Raise(Proj4Error(Or(target_proj4, row_proj4)), "proj4 unparseable")
    ELSE [ok |-> TRUE,
          geometry |-> transform_shapely_geometry(f, loaded.geometry),
          proj4 |-> RowLabel(row_proj4, target_proj4)]))

\* from_csv when the rows differ: a transform and a label per row
FromCsvEach(t, geometry_columns, source_proj4, target_proj4) ==
    Let1(Strict([i \in 1..Len(t.rows) |->
                    FromCsvRow(geometry_columns, t.rows[i],
                               RowGet(t.rows[i], source_proj4), target_proj4)]),
         LAMBDA results :
    Let1({i \in 1..Len(results) : ~results[i].ok}, LAMBDA failed :
    IF failed # {} THEN results[Min(failed)]
    ELSE FromCsvTable(t, geometry_columns,
             [i \in 1..Len(results) |-> results[i].geometry],
             [i \in 1..Len(results) |-> results[i].proj4])))

\* from_csv after the file was read: t0 is what load_csv_safely returned
FromCsvRead(t0, folder, source_path, default_proj4, target_proj4) ==
    Let1(_get_geometry_columns(t0.columns), LAMBDA gc :
    IF ~gc.ok THEN Raise("GeoTableError", <<gc.message, source_path>>) ELSE
    Let1(_get_proj4_from_path(folder, source_path, default_proj4), LAMBDA source :
    IF ~source.ok THEN source ELSE
    Let1(IF HasColumn(t0, "geometry_layer") THEN t0
         ELSE FillColumn(t0, "geometry_layer", get_file_stem(source_path)),
         LAMBDA t :
    IF _has_one_proj4(t)
    THEN FromCsvOne(t, gc.columns, RowGet(t.rows[1], source.proj4), target_proj4)
    ELSE FromCsvEach(t, gc.columns, source.proj4, target_proj4))))

\* GeoTable.from_csv: [ok |-> TRUE, table] or the error raised.
from_csv(folder, source_path, source_proj4, target_proj4) ==
    Let1(FileAt(folder, source_path), LAMBDA file :
    IF file.kind # "csv" THEN Raise("FileNotFoundError", "")
    ELSE IF file.columns = <<>> THEN Raise("EmptyGeoTableError", "file empty")
    ELSE Let1(ReadCsv(file), LAMBDA t0 :
             FromCsvRead(t0, folder, source_path, source_proj4, target_proj4)))

(***************************************************************************)
(* The vector-dataset reader (from_gdal).  A dataset file is               *)
(* [kind |-> "gdal", layers]; a layer is [name, srs, features], srs the    *)
(* proj4 export of its spatial reference or None; a feature is             *)
(* [kind, fid, geometry] with kind "ok", "unreadable" (GetNextFeature      *)
(* gives None) or "badwkb" (shapely cannot read the geometry).             *)
(***************************************************************************)
KML_COLUMNS ==
    {"description", "timestamp", "begin", "end", "altitudeMode", "tessellate",
     "extrude", "visibility", "drawOrder", "icon", "snippet"}

GdalFile(layers) == [kind |-> "gdal", layers |-> layers]

\* _get_proj4_from_gdal_layer: [ok |-> TRUE, proj4] or the error raised
_get_proj4_from_gdal_layer(layer, default_proj4) ==
    Let1(IF layer.srs = None THEN Or(default_proj4, LONGITUDE_LATITUDE_PROJ4)
         ELSE layer.srs, LAMBDA proj4 :
    IF Proj4Error(proj4) # "" THEN Raise(Proj4Error(proj4), "proj4 unparseable")
    ELSE Proj4(normalize_proj4(proj4)))

\* _get_instance_from_gdal_layer: unreadable features are skipped
_get_instance_from_gdal_layer(layer, f) ==
    Let1(SelectSeq(layer.features, LAMBDA feature : feature.kind = "ok"),
         LAMBDA kept :
        [columns |-> <<"fid", "geometry_object">>,
         rows |-> Strict([i \in 1..Len(kept) |->
             [fid |-> kept[i].fid,
              geometry_object |-> FromWkb(ToWkb(
                  transform_gdal_geometry(f, kept[i].geometry)))]])])

\* One turn of the loop of from_gdal: [ok |-> TRUE, table] or the error
FromGdalLayer(layer, source_proj4, target_proj4) ==
    Let1(_get_proj4_from_gdal_layer(layer, source_proj4), LAMBDA row_proj4 :
    IF ~row_proj4.ok THEN row_proj4 ELSE
    Let1(_get_transform_gdal_geometry(row_proj4.proj4, target_proj4), LAMBDA f :
    IF f.kind = "error" THEN Raise(f.error, "proj4 unparseable") ELSE
    Let1(_get_instance_from_gdal_layer(layer, f), LAMBDA t :
    Let1(FillColumn(t, "geometry_layer", layer.name), LAMBDA t1 :
    IF Proj4Error(Or(target_proj4, row_proj4.proj4)) # ""
    THEN Raise(Proj4Error(Or(target_proj4, row_proj4.proj4)), "proj4 unparseable")
    ELSE Return(FillColumn(t1, "geometry_proj4",
                           RowLabel(row_proj4.proj4, target_proj4)))))))

\* GeoTable.from_gdal: [ok |-> TRUE, table] or the error raised.
from_gdal(folder, source_path, source_proj4, target_proj4) ==
    Let1(FileAt(folder, source_path), LAMBDA file :
    IF file.kind # "gdal" THEN Raise("GeoTableError", "file unloadable") ELSE
    Let1(Strict([k \in 1..Len(file.layers) |->
                    FromGdalLayer(file.layers[k], source_proj4, target_proj4)]),
         LAMBDA instances :
    Let1({k \in 1..Len(instances) : ~instances[k].ok}, LAMBDA failed :
    IF failed # {} THEN instances[Min(failed)]
    ELSE IF Len(instances) = 0 THEN Raise("ValueError", "No objects to concatenate")
    ELSE Let1(Strict([k \in 1..Len(instances) |-> instances[k].table]),
              LAMBDA tables :
         Let1(concatenate_tables(tables), LAMBDA t :
             IF source_path.ext \in {".kmz", ".kml"}
             THEN Return(DropColumns(t, KML_COLUMNS))
             ELSE Return(t))))))

(***************************************************************************)
(* load (GeoTable._load, GeoTable.load).                                   *)
(***************************************************************************)
GEOTABLE_EXTENSIONS == {".csv", ".geojson", ".kml", ".kmz", ".json", ".shp"}

\* except (GeoTableError, ValueError): the exceptions _load swallows
Swallowed(error) ==
    error \in {"GeoTableError", "EmptyGeoTableError", "SpatialReferenceError",
               "CoordinateTransformationError", "ValueError"}

\* The folder an archive uncompresses to
MemberFolder(archive) ==
    [p \in {archive.members[k].path : k \in 1..Len(archive.members)} |->
        archive.members[
            CHOOSE k \in 1..Len(archive.members) : archive.members[k].path = p].file]
    @@ <<>>

\* find_paths(source_folder, '*' + ext)
FindPaths(members, ext) ==
    Let1(SelectSeq(members, LAMBDA member : member.path.ext = ext), LAMBDA found :
        Strict([k \in 1..Len(found) |-> found[k].path]))

\* The tables of the members that loaded
LoadedTables(results) ==
    Let1(SelectSeq(results, LAMBDA result : result.ok), LAMBDA loaded :
        Strict([k \in 1..Len(loaded) |-> loaded[k].table]))

\* GeoTable(): a table without rows or columns
EmptyGeoTable == [columns |-> <<>>, rows |-> <<>>]

\* The two loops of _load over the files of a folder
LoadFolder(folder, members, source_proj4, target_proj4) ==
    Let1(FindPaths(members, ".csv"), LAMBDA csvs :
    Let1(FindPaths(members, ".shp"), LAMBDA shps :
    Let1(Strict([k \in 1..Len(csvs) |->
                    from_csv(folder, csvs[k], source_proj4, target_proj4)])
         \o Strict([k \in 1..Len(shps) |->
                    from_gdal(folder, shps[k], source_proj4, target_proj4)]),
         LAMBDA results :
    Let1({k \in 1..Len(results) :
             ~results[k].ok /\ ~Swallowed(results[k].error)}, LAMBDA raised :
    IF raised # {} THEN results[Min(raised)] ELSE
    Let1(LoadedTables(results), LAMBDA tables :
        IF tables # <<>> THEN Return(concatenate_tables(tables))
        ELSE Return(EmptyGeoTable))))))

\* GeoTable._load of a path on the disk (the disk holds no directory and the
\* path is no URL).
_load(folder, source_path, source_proj4, target_proj4) ==
    Let1(FileAt(folder, source_path), LAMBDA file :
    IF source_path.ext \notin GEOTABLE_EXTENSIONS /\ file.kind = "archive"
    THEN Let1(MemberFolder(file), LAMBDA source_folder :
             LoadFolder(source_folder, file.members, source_proj4, target_proj4))
    ELSE IF source_path.ext = ".csv"
    THEN from_csv(folder, source_path, source_proj4, target_proj4)
    ELSE from_gdal(folder, source_path, source_proj4, target_proj4))

NoBox == [given |-> FALSE]
Box(lo, hi) == [given |-> TRUE, lo |-> lo, hi |-> hi]

\* g.intersects(box) for a point g and the box with corners lo and hi
Intersects(g, lo, hi) ==
    /\ lo.x <= g.x /\ g.x <= hi.x
    /\ lo.y <= g.y /\ g.y <= hi.y

\* The rows of load inside the bounding box, reprojected by f
InBox(t, f, bounding_box) ==
    Let1(transform_shapely_geometry(f, bounding_box.lo), LAMBDA lo :
    Let1(transform_shapely_geometry(f, bounding_box.hi), LAMBDA hi :
        [columns |-> t.columns,
         rows |-> SelectSeq(t.rows, LAMBDA row :
                      Intersects(row["geometry_object"], lo, hi))]))

\* GeoTable.load: [ok |-> TRUE, table] or the error raised.  bounding_box is
\* NoBox or a box other than the whole world; bounding_polygon is left out.
load(folder, source_path, source_proj4, target_proj4, dropZ, bounding_box) ==
    Let1(_load(folder, source_path, source_proj4, target_proj4), LAMBDA loaded :
    IF ~loaded.ok THEN loaded
    ELSE IF dropZ /\ ~HasColumn(loaded.table, "geometry_object")
    THEN Raise("KeyError", "geometry_object") ELSE
    Let1(IF dropZ
         THEN SetColumn(loaded.table, "geometry_object",
                  [i \in 1..Len(loaded.table.rows) |->
                      drop_z(loaded.table.rows[i]["geometry_object"])])
         ELSE loaded.table, LAMBDA flat :
    IF ~bounding_box.given THEN Return(flat) ELSE
    Let1(get_transform_shapely_geometry(LONGITUDE_LATITUDE_PROJ4, target_proj4),
         LAMBDA f :
    IF f.kind = "error" THEN Raise(f.error, "proj4 unparseable")
    ELSE Return(InBox(flat, f, bounding_box)))))

(***************************************************************************)
(* The state machine.                                                      *)
(***************************************************************************)
X_CSV == Path("x", ".csv")
X_PROJ4 == Path("x", ".proj4")
X_ZIP == Path("x", ".zip")
D_GEOJSON == Path("d", ".geojson")

Paths == {X_CSV, X_PROJ4, X_ZIP, D_GEOJSON}

EmptyDisk == [p \in Paths |-> NoFile]

NoSave == [saved |-> FALSE]
NoOp == [name |-> "none"]
NoRet == [ok |-> TRUE]

Init ==
    /\ disk = EmptyDisk
    /\ lastSave = NoSave
    /\ op = NoOp
    /\ ret = NoRet

GeoTableOf(rows) ==
    [columns |-> <<"geometry_object", "geometry_layer", "geometry_proj4">>,
     rows |-> rows]


\* table.save_csv(target_path, target_proj4)
SaveCsv(table, target_path, target_proj4) ==
    \E saved \in {to_csv(disk, table, target_path, target_proj4)} :
        /\ disk' = saved.disk
        /\ lastSave' = [saved |-> TRUE,
                        table |-> table,
                        target_path |-> target_path,
                        target_proj4 |-> target_proj4,
                        error |-> saved.error,
                        sidecar_before |->
                            FileAt(disk, replace_file_extension(target_path, ".proj4")),
                        fresh |-> /\ ~Exists(disk, target_path)
                                  /\ ~Exists(disk, replace_file_extension(
                                                       target_path, ".proj4"))]
        /\ op' = [name |-> "save_csv", target_path |-> target_path,
                  target_proj4 |-> target_proj4]
        /\ ret' = [ok |-> saved.error = "", error |-> saved.error]

\* load(source_path, source_proj4, target_proj4, drop_z, bounding_box)
Load(source_path, source_proj4, target_proj4, dropZ, bounding_box) ==
    /\ op' = [name |-> "load", source_path |-> source_path,
              source_proj4 |-> source_proj4, target_proj4 |-> target_proj4,
              drop_z |-> dropZ, bounding_box |-> bounding_box]
    /\ ret' = load(disk, source_path, source_proj4, target_proj4, dropZ,
                   bounding_box)
    /\ UNCHANGED <<disk, lastSave>>

(***************************************************************************)
(* Spec: tables are saved as CSV, plain or in an archive, and loaded back. *)
(***************************************************************************)
SaveGeometries == {Point(0, 1), LineString(1, 0)}
SaveProj4s == {LONGITUDE_LATITUDE_PROJ4, LONGLAT_ELLPS_PROJ4, UTM17_PROJ4}
SaveTargets == {None, LONGLAT_ELLPS_PROJ4, UTM_PROJ4}

SaveRows ==
    [geometry_object : SaveGeometries, geometry_layer : {""},
     geometry_proj4 : SaveProj4s]

SaveTables ==
    {EmptyGeoTable} \cup {GeoTableOf(rows) : rows \in SeqsUpTo(SaveRows, MaxRows)}

Next ==
    \/ \E table \in SaveTables, target_proj4 \in SaveTargets :
            SaveCsv(table, X_CSV, target_proj4)
    \/ Load(X_CSV, None, None, FALSE, NoBox)

Spec == Init /\ [][Next]_vars

(***************************************************************************)
(* SpecArchive: the same, to and from the archive x.zip.                   *)
(***************************************************************************)
NextArchive ==
    \/ \E table \in SaveTables, target_proj4 \in SaveTargets :
            SaveCsv(table, X_ZIP, target_proj4)
    \/ Load(X_ZIP, None, None, FALSE, NoBox)

SpecArchive == Init /\ [][NextArchive]_vars

(***************************************************************************)
(* SpecLayers: tables whose rows differ in layer and CRS are saved as CSV. *)
(***************************************************************************)
SaveLayers == {"", "x", "y"}

LayerRows ==
    [geometry_object : {Point(0, 1)}, geometry_layer : SaveLayers,
     geometry_proj4 : SaveProj4s]

LayerTables ==
    {EmptyGeoTable} \cup {GeoTableOf(rows) : rows \in SeqsUpTo(LayerRows, MaxRows)}

NextLayers ==
    \E table \in LayerTables, target_proj4 \in SaveTargets :
        SaveCsv(table, X_CSV, target_proj4)

SpecLayers == Init /\ [][NextLayers]_vars

(***************************************************************************)
(* SpecLoad: files written by other programs are put on an empty disk, then *)
(* loaded.  Every authored row carries an attribute `fid` that records the *)
(* geometry as it was written and the CRS its file declares for it (in its *)
(* own cell, else in the sidecar file or the layer; None when the file     *)
(* declares none).                                                         *)
(***************************************************************************)
MaxLayers == 2      \* layers of an authored vector dataset

A_CSV == Path("a", ".csv")
A_PROJ4 == Path("a", ".proj4")
B_SHP == Path("b", ".shp")

LineStringZ(x, y) == [type |-> "LineString", x |-> x, y |-> y, hasZ |-> TRUE]

AuthoredGeometries == {Point(1, 2), LineStringZ(11, 12)}

Ghost(g, own) == [raw |-> g, own |-> own]

\* What a sidecar file says: None when there is no file
Sidecars == {None, UTM_PROJ4}

SidecarFile(sidecar) == IF sidecar = None THEN NoFile ELSE TextFile(sidecar)

\* The cells of an authored geometry_proj4 column: "" is an empty cell
AuthoredCells == {LONGLAT_ELLPS_PROJ4, UTM17_PROJ4, ""}

\* A CSV with a wkt column and a geometry_proj4 column
CsvWithProj4(picks, sidecar) ==
    CsvFile(<<"fid", "WKT", "geometry_proj4">>,
        [i \in 1..Len(picks) |->
            [fid |-> Ghost(picks[i].geometry,
                           IF picks[i].cell # "" THEN picks[i].cell ELSE sidecar),
             WKT |-> ToWkt(picks[i].geometry),
             geometry_proj4 |-> picks[i].cell]])

\* A CSV with a wkt column alone
CsvWithWkt(picks, sidecar) ==
    CsvFile(<<"wkt", "fid">>,
        [i \in 1..Len(picks) |->
            [fid |-> Ghost(picks[i].geometry, sidecar),
             wkt |-> ToWkt(picks[i].geometry)]])

\* A CSV of points by their coordinates
CsvWithLonLat(picks, sidecar) ==
    CsvFile(<<"Latitude", "fid", "Longitude">>,
        [i \in 1..Len(picks) |->
            [fid |-> Ghost(Point(picks[i].geometry.x, picks[i].geometry.y), sidecar),
             Longitude |-> picks[i].geometry.x,
             Latitude |-> picks[i].geometry.y]])

AuthoredCsvs(sidecar) ==
    {CsvWithProj4(picks, sidecar) :
        picks \in SeqsUpTo([geometry : AuthoredGeometries, cell : AuthoredCells],
                           MaxRows)}
    \cup {CsvWithWkt(picks, sidecar) :
        picks \in SeqsUpTo([geometry : AuthoredGeometries], MaxRows)}
    \cup {CsvWithLonLat(picks, sidecar) :
        picks \in SeqsUpTo([geometry : AuthoredGeometries], MaxRows)}

\* A layer of a vector dataset: its features are readable or not
Feature(kind, g, srs) == [kind |-> kind, fid |-> Ghost(g, srs), geometry |-> g]

AuthoredFeatures(srs) ==
    {<<>>,
     <<Feature("ok", Point(1, 2), srs)>>,
     <<Feature("unreadable", Point(1, 2), srs),
       Feature("ok", LineStringZ(11, 12), srs)>>}

LayerNames == <<"l1", "l2", "l3">>

AuthoredLayers ==
    UNION {{[srs |-> srs, features |-> features] :
               features \in AuthoredFeatures(srs)} : srs \in {None, UTM17_PROJ4}}

AuthoredDatasets ==
    {GdalFile([k \in 1..Len(layers) |->
                  [name |-> LayerNames[k], srs |-> layers[k].srs,
                   features |-> layers[k].features]]) :
        layers \in SeqsUpTo(AuthoredLayers, MaxLayers)}

\* An archive of a CSV with or without its sidecar, and of a shapefile or none
ArchivedCsvs(sidecar) ==
    {CsvWithWkt(<<[geometry |-> Point(1, 2)]>>, sidecar),
     CsvWithProj4(<<[geometry |-> Point(1, 2), cell |-> UTM17_PROJ4],
                    [geometry |-> LineStringZ(11, 12),
                     cell |-> LONGLAT_ELLPS_PROJ4]>>, sidecar),
     CsvFile(<<"fid">>, <<>>)}

ArchivedShps ==
    {<<>>,
     <<[path |-> B_SHP,
        file |-> GdalFile(<<[name |-> "b", srs |-> UTM17_PROJ4,
                             features |-> <<Feature("ok", Point(1, 2),
                                                    UTM17_PROJ4)>>]>>)]>>}

AuthoredArchives ==
    UNION {{Archive(<<[path |-> A_CSV, file |-> csv]>>
                    \o (IF sidecar = None THEN <<>>
                        ELSE <<[path |-> A_PROJ4, file |-> TextFile(sidecar)]>>)
                    \o shp) :
               csv \in ArchivedCsvs(sidecar), shp \in ArchivedShps} :
           sidecar \in Sidecars}

AuthoredDisks ==
    UNION {{[EmptyDisk EXCEPT ![X_CSV] = csv, ![X_PROJ4] = SidecarFile(sidecar)] :
               csv \in AuthoredCsvs(sidecar)} : sidecar \in Sidecars}
    \cup {[EmptyDisk EXCEPT ![D_GEOJSON] = dataset] : dataset \in AuthoredDatasets}
    \cup {[EmptyDisk EXCEPT ![X_ZIP] = archive] : archive \in AuthoredArchives}

\* Files are put on the empty disk
Author(files) ==
    /\ disk = EmptyDisk
    /\ disk' = files
    /\ op' = [name |-> "author"]
    /\ UNCHANGED <<lastSave, ret>>

LoadSources == {None, SPHERICAL_MERCATOR_PROJ4}
LoadTargets == {None, LONGLAT_ELLPS_PROJ4, UTM_PROJ4}
LoadBox == Box(Point(0, 0), Point(2, 2))
LoadOptions == {<<FALSE, NoBox>>, <<TRUE, NoBox>>, <<FALSE, LoadBox>>}

NextLoad ==
    \/ \E files \in AuthoredDisks : Author(files)
    \/ \E source_path \in {X_CSV, D_GEOJSON, X_ZIP},
          source_proj4 \in LoadSources, target_proj4 \in LoadTargets,
          options \in LoadOptions :
            Load(source_path, source_proj4, target_proj4, options[1], options[2])

SpecLoad == Init /\ [][NextLoad]_vars

(***************************************************************************)
(* SpecColumns: _get_geometry_columns on the columns of a table.           *)
(***************************************************************************)
TableColumnNames ==
    {"WKT", "wkt", "Longitude_Latitude_WKT", "Latitude_Longitude_WKT",
     "Longitude", "Latitude", "start_longitude", "start_latitude", "LON", "LAT",
     "X", "Y", "name", "fid"}

\* The lists of up to n different names
Distinct(s) == \A i, j \in 1..Len(s) : s[i] = s[j] => i = j

ColumnLists(n) == {s \in SeqsUpTo(TableColumnNames, n) : Distinct(s)}

InitColumns ==
    /\ disk = EmptyDisk
    /\ lastSave = NoSave
    /\ op \in {[name |-> "table", column_names |-> column_names] :
                  column_names \in ColumnLists(MaxColumns)}
    /\ ret = NoRet

GetGeometryColumns ==
    /\ op.name = "table"
    /\ op' = [op EXCEPT !.name = "_get_geometry_columns"]
    /\ ret' = _get_geometry_columns(op.column_names)
    /\ UNCHANGED <<disk, lastSave>>

NextColumns == GetGeometryColumns

SpecColumns == InitColumns /\ [][NextColumns]_vars

\* The names of each kind, as the claim classes them
WktNames == {"WKT", "wkt", "Longitude_Latitude_WKT", "Latitude_Longitude_WKT"}
XNames(rule) ==
    CASE rule = 2 -> {"Longitude"}
      [] rule = 3 -> {"Longitude", "start_longitude"}
      [] rule = 4 -> {"LON"}
      [] rule = 5 -> {"X"}
YNames(rule) ==
    CASE rule = 2 -> {"Latitude"}
      [] rule = 3 -> {"Latitude", "start_latitude"}
      [] rule = 4 -> {"LAT"}
      [] rule = 5 -> {"Y"}
MatchingNames == WktNames \cup UNION {XNames(r) \cup YNames(r) : r \in 2..5}

HasPair(names, rule) == names \cap XNames(rule) # {} /\ names \cap YNames(rule) # {}

\* The first rule of the claim that matches the names, 0 when none does
FirstRule(names) ==
    IF names \cap WktNames # {} THEN 1
    ELSE IF \E r \in 2..5 : HasPair(names, r)
    THEN CHOOSE r \in 2..5 :
             HasPair(names, r) /\ \A q \in 2..(r - 1) : ~HasPair(names, q)
    ELSE 0

\* C3: _get_geometry_columns returns a well-known-text column when there is
\* one, else the [x-like, y-like] pair of the first rule that has both of its
\* members (longitude+latitude, names ending so, lon+lat, x+y) in that order
\* whatever the order of the table's columns; the result is the same without
\* the columns that match no rule; and GeoTableError('geometry columns
\* expected') is raised exactly when no rule matches.
C3_ColumnPriority ==
    op.name = "_get_geometry_columns" =>
        LET names == Range(op.column_names)
            rule == FirstRule(names)
        IN  /\ rule = 0 <=> ~ret.ok
            /\ rule = 0 => /\ ret.error = "GeoTableError"
                           /\ ret.message = "geometry columns expected"
            /\ rule = 1 => /\ Len(ret.columns) = 1
                           /\ ret.columns[1] \in names \cap WktNames
            /\ rule \in 2..5 => /\ Len(ret.columns) = 2
                                /\ ret.columns[1] \in names \cap XNames(rule)
                                /\ ret.columns[2] \in names \cap YNames(rule)
            /\ ret = _get_geometry_columns(
                         SelectSeq(op.column_names, LAMBDA c : c \in MatchingNames))

\* The table has a latitude column before its longitude column, an x+y pair
\* and no well-known-text column: the longitude+latitude pair is returned
C3_Witness ==
    /\ op.name = "_get_geometry_columns"
    /\ op.column_names = <<"Y", "Latitude", "X", "Longitude">>
    /\ ret.ok
    /\ ret.columns = <<"Longitude", "Latitude">>

(***************************************************************************)
(* SpecTransform: the transform built for a source and a target CRS,       *)
(* applied to a geometry.                                                  *)
(***************************************************************************)
TransformSources ==
    {LONGITUDE_LATITUDE_PROJ4, LONGLAT_ELLPS_PROJ4, UTM17_PROJ4, UTM_PROJ4,
     SPHERICAL_MERCATOR_PROJ4, "x"}

TransformTargets == TransformSources \cup {None, ""}

InitTransform ==
    /\ disk = EmptyDisk
    /\ lastSave = NoSave
    /\ op \in {[name |-> "geometry", source_proj4 |-> source_proj4,
                target_proj4 |-> target_proj4, geometry |-> g] :
                  source_proj4 \in TransformSources,
                  target_proj4 \in TransformTargets,
                  g \in AuthoredGeometries}
    /\ ret = NoRet

\* f = _get_transform_gdal_geometry(source_proj4, target_proj4); f(geometry),
\* and the same through get_transform_shapely_geometry
TransformGeometry ==
    /\ op.name = "geometry"
    /\ op' = [op EXCEPT !.name = "transform"]
    /\ \E f \in {_get_transform_gdal_geometry(op.source_proj4, op.target_proj4)},
          h \in {get_transform_shapely_geometry(op.source_proj4, op.target_proj4)} :
           ret' = IF f.kind = "error" THEN Raise(f.error, "proj4 unparseable")
                  ELSE [ok |-> TRUE, f |-> f,
                        gdal_geometry |-> transform_gdal_geometry(f, op.geometry),
                        shapely_geometry |->
                            transform_shapely_geometry(h, op.geometry)]
    /\ UNCHANGED <<disk, lastSave>>

NextTransform == TransformGeometry

SpecTransform == InitTransform /\ [][NextTransform]_vars

\* The transform is the identity: no transformation object, same geometry
IsIdentity ==
    /\ ret.ok
    /\ ret.f.kind = "identity"
    /\ ret.gdal_geometry = op.geometry
    /\ ret.shapely_geometry = op.geometry

\* The two strings import and have the same canonical form
CanonicalEqual(a, b) ==
    /\ Proj4Error(a) = "" /\ Proj4Error(b) = ""
    /\ normalize_proj4(a) = normalize_proj4(b)

ReadCells ==
    {LONGITUDE_LATITUDE_PROJ4, LONGLAT_ELLPS_PROJ4, UTM17_PROJ4, UTM_PROJ4, NaN}

ReadTables ==
    {[columns |-> <<"wkt", "geometry_proj4">>, rows |-> rows] :
        rows \in SeqsUpTo([wkt : {ToWkt(g) : g \in AuthoredGeometries},
                           geometry_proj4 : ReadCells], MaxRows)}
    \cup {[columns |-> <<"wkt">>, rows |-> rows] :
        rows \in SeqsUpTo([wkt : {ToWkt(g) : g \in AuthoredGeometries}], MaxRows)}

InitOneProj4 ==
    /\ disk = EmptyDisk
    /\ lastSave = NoSave
    /\ op \in {[name |-> "table", t |-> t] : t \in ReadTables}
    /\ ret = NoRet

HasOneProj4 ==
    /\ op.name = "table"
    /\ op' = [op EXCEPT !.name = "_has_one_proj4"]
    /\ ret' = [ok |-> TRUE, value |-> _has_one_proj4(op.t)]
    /\ UNCHANGED <<disk, lastSave>>

NextOneProj4 == HasOneProj4

SpecOneProj4 == InitOneProj4 /\ [][NextOneProj4]_vars

Proj4Cells(t) == {t.rows[i]["geometry_proj4"] : i \in 1..Len(t.rows)}

\* C6 as stated: _has_one_proj4 is False for a table without rows; for a table
\* with rows it is True if there is no geometry_proj4 column or if the rows'
\* values share one canonical CRS form, and False otherwise.
C6_OneCanonicalForm ==
    op.name = "_has_one_proj4" =>
        ret.value =
            /\ Len(op.t.rows) > 0
            /\ \/ "geometry_proj4" \notin Range(op.t.columns)
               \/ /\ NaN \notin Proj4Cells(op.t)
                  /\ \A p, q \in Proj4Cells(op.t) :
                         normalize_proj4(p) = normalize_proj4(q)

\* C6, amended: _has_one_proj4 is False for a table without rows; for a table
\* with rows it is True if there is no geometry_proj4 column or if the rows
\* hold one and the same value as written (two spellings of one CRS are two
\* values, a column of missing values alone holds one value), and False
\* otherwise.
C6_OneValue ==
    op.name = "_has_one_proj4" =>
        ret.value =
            /\ Len(op.t.rows) > 0
            /\ \/ "geometry_proj4" \notin Range(op.t.columns)
               \/ \A i, j \in 1..Len(op.t.rows) :
                      op.t.rows[i]["geometry_proj4"] = op.t.rows[j]["geometry_proj4"]

\* A table whose two rows spell one CRS in two ways was asked about
C6_Witness ==
    /\ op.name = "_has_one_proj4"
    /\ Len(op.t.rows) = 2
    /\ "geometry_proj4" \in Range(op.t.columns)
    /\ op.t.rows[1]["geometry_proj4"] = UTM17_PROJ4
    /\ op.t.rows[2]["geometry_proj4"] = UTM_PROJ4
    /\ ret.value = FALSE

(***************************************************************************)
(* Properties of the CSV round trip.                                       *)
(***************************************************************************)
\* The (well-known-text, canonical CRS) pairs of the rows of a table, counted
Pairs(t) ==
    SeqToBag([i \in 1..Len(t.rows) |->
        <<ToWkt(t.rows[i]["geometry_object"]),
          normalize_proj4(t.rows[i]["geometry_proj4"])>>])

\* The most recent save went to a target that had neither file nor sidecar,
\* and named no target CRS
FreshSave == lastSave.saved /\ lastSave.fresh /\ lastSave.target_proj4 = None

\* C1: a table saved by save_csv to a fresh plain .csv path with no target CRS
\* is saved without error, and a load of that path returns as many rows as
\* were saved, with the same (well-known-text, canonical CRS) pairs counted
\* with multiplicity; an empty table loads back as a table of zero rows.
C1_CsvRoundTrip ==
    FreshSave =>
        /\ lastSave.error = ""
        /\ op.name = "load" =>
              /\ ret.ok
              /\ Len(ret.table.rows) = Len(lastSave.table.rows)
              /\ Pairs(ret.table) = Pairs(lastSave.table)

\* A table of two rows in two CRSs, one of them written in a non-canonical
\* form, was saved to a fresh path and loaded back
C1_Witness ==
    /\ FreshSave
    /\ op.name = "load"
    /\ ret.ok
    /\ Len(lastSave.table.rows) = 2
    /\ lastSave.table.rows[1]["geometry_proj4"] = UTM17_PROJ4
    /\ lastSave.table.rows[2]["geometry_proj4"] = LONGLAT_ELLPS_PROJ4

(***************************************************************************)
(* Properties of loaded tables.                                            *)
(***************************************************************************)
\* The CRS a loaded row was read in: the one its file declares for it, else
\* the caller's source_proj4, else longitude-latitude
ReadProj4(row) ==
    IF row["fid"].own # None THEN normalize_proj4(row["fid"].own)
    ELSE Or(op.source_proj4, LONGITUDE_LATITUDE_PROJ4)

\* The CRS the claim has a loaded row labelled with
LabelProj4(row) == normalize_proj4(Or(op.target_proj4, ReadProj4(row)))

\* The geometry as it was written, moved from the CRS it was read in to crs
ExpectedGeometry(row, crs) ==
    IF op.drop_z THEN drop_z(Reproject(row["fid"].raw, ReadProj4(row), crs))
    ELSE Reproject(row["fid"].raw, ReadProj4(row), crs)

\* C2: in every table load returns (from a CSV, a vector dataset or an archive
\* of several files, with or without drop_z and a bounding box) each row is
\* labelled with the canonical form of target_proj4 when a target was given,
\* else with the canonical form of the CRS the row was read in, and its
\* geometry is the written geometry expressed in that labelled CRS.
C2_GeometryInLabelledCrs ==
    (op.name = "load" /\ ret.ok) =>
        \A i \in 1..Len(ret.table.rows) :
            /\ ret.table.rows[i]["geometry_proj4"] = LabelProj4(ret.table.rows[i])
            /\ ret.table.rows[i]["geometry_object"]
                   = ExpectedGeometry(ret.table.rows[i],
                                      ret.table.rows[i]["geometry_proj4"])

\* An archive of a CSV with rows in two CRSs and of a shapefile was loaded
\* into UTM, and a geometry was moved
C2_Witness ==
    /\ op.name = "load" /\ ret.ok
    /\ op.source_path = X_ZIP
    /\ op.target_proj4 = UTM_PROJ4
    /\ Len(ret.table.rows) = 3
    /\ \E i \in 1..3 :
           ret.table.rows[i]["geometry_object"] # ret.table.rows[i]["fid"].raw

\* A load of x.csv, a CSV with rows and without a geometry_proj4 column,
\* returned a table
LoadedPlainCsv ==
    /\ op.name = "load" /\ ret.ok
    /\ op.source_path = X_CSV
    /\ disk[X_CSV].kind = "csv"
    /\ "geometry_proj4" \notin Range(disk[X_CSV].columns)
    /\ Len(ret.table.rows) > 0

\* Every returned row was read in the CRS assumed: it is labelled with the
\* target, else with assumed, and its geometry was moved from assumed
ReadAs(assumed) ==
    \A i \in 1..Len(ret.table.rows) :
        LET row == ret.table.rows[i]
            moved == Reproject(row["fid"].raw, assumed, row["geometry_proj4"])
        IN  /\ row["geometry_proj4"] = normalize_proj4(Or(op.target_proj4, assumed))
            /\ row["geometry_object"] = IF op.drop_z THEN drop_z(moved) ELSE moved

\* C4 as stated: the rows of a CSV without a geometry_proj4 column are read in
\* the caller's source_proj4 if given, else in the CRS of the sidecar file if
\* it exists, else in longitude-latitude.
C4_CallerFirst ==
    LoadedPlainCsv =>
        ReadAs(IF op.source_proj4 # None THEN op.source_proj4
               ELSE IF Exists(disk, X_PROJ4) THEN normalize_proj4(disk[X_PROJ4].text)
               ELSE LONGITUDE_LATITUDE_PROJ4)

\* C4, amended: the rows of a CSV without a geometry_proj4 column are read in
\* the CRS of the sidecar file if it exists, else in the caller's source_proj4
\* if given, else in longitude-latitude.
C4_SidecarFirst ==
    LoadedPlainCsv =>
        ReadAs(IF Exists(disk, X_PROJ4) THEN normalize_proj4(disk[X_PROJ4].text)
               ELSE IF op.source_proj4 # None THEN op.source_proj4
               ELSE LONGITUDE_LATITUDE_PROJ4)

\* A CSV that has a sidecar file was loaded with a source_proj4 that differs
\* from it, and with no target
C4_Witness ==
    /\ LoadedPlainCsv
    /\ Exists(disk, X_PROJ4)
    /\ op.source_proj4 = SPHERICAL_MERCATOR_PROJ4
    /\ op.target_proj4 = None
    /\ ret.table.rows[1]["geometry_proj4"] = UTM17_PROJ4

\* x.csv, a CSV whose rows carry differing geometry_proj4 values (a missing
\* value being one of them), was loaded whole
LoadedMixedCsv ==
    /\ op.name = "load"
    /\ op.source_path = X_CSV
    /\ op.bounding_box = NoBox
    /\ disk[X_CSV].kind = "csv"
    /\ "geometry_proj4" \in Range(disk[X_CSV].columns)
    /\ \E i, j \in 1..Len(disk[X_CSV].rows) :
           disk[X_CSV].rows[i]["geometry_proj4"] # disk[X_CSV].rows[j]["geometry_proj4"]

\* C7: when from_csv loads a CSV whose rows carry differing geometry_proj4
\* values, the load succeeds; a row whose value is missing is read in the
\* fallback CRS (sidecar, explicit or longitude-latitude), every other row in
\* its own CRS, and the rows come back in the order of the file.
C7_MissingProj4UsesFallback ==
    LoadedMixedCsv =>
        /\ ret.ok
        /\ Len(ret.table.rows) = Len(disk[X_CSV].rows)
        /\ \A i \in 1..Len(ret.table.rows) :
               /\ ret.table.rows[i]["fid"] = disk[X_CSV].rows[i]["fid"]
               /\ ret.table.rows[i]["geometry_proj4"] = LabelProj4(ret.table.rows[i])
               /\ ret.table.rows[i]["geometry_object"]
                      = ExpectedGeometry(ret.table.rows[i],
                                         ret.table.rows[i]["geometry_proj4"])

\* What the code does for such a CSV: the load fails exactly when a value is
\* missing, and every claim of C7 holds when none is
C7_MissingProj4Fails ==
    LoadedMixedCsv =>
        IF \E i \in 1..Len(disk[X_CSV].rows) :
               disk[X_CSV].rows[i]["geometry_proj4"] = ""
        THEN ~ret.ok
        ELSE C7_MissingProj4UsesFallback

(***************************************************************************)
(* Properties of the CSV writer.                                           *)
(***************************************************************************)
\* The CRSs the rows of the table last saved are written in, in canonical form
OutputProj4s ==
    {normalize_proj4(Or(lastSave.target_proj4,
                        lastSave.table.rows[i]["geometry_proj4"])) :
        i \in 1..Len(lastSave.table.rows)}

\* The layer values of the rows of the table last saved
LayerValues ==
    {lastSave.table.rows[i]["geometry_layer"] : i \in 1..Len(lastSave.table.rows)}

\* The same, an empty value standing for the stem of the target path
LayerValuesOnTarget ==
    {IF l = "" THEN get_file_stem(lastSave.target_path) ELSE l : l \in LayerValues}

SavedRows == lastSave.saved /\ Len(lastSave.table.rows) > 0

\* What to_csv does about the CRS of a table with rows: the column is left out
\* exactly when there is one output CRS (as there is whenever a target is
\* given); the sidecar is then written with that CRS if it is not
\* longitude-latitude; else the sidecar is left as it was
WritesProj4 ==
    /\ lastSave.error = ""
    /\ "geometry_proj4" \notin Range(disk[X_CSV].columns)
           <=> Cardinality(OutputProj4s) = 1
    /\ lastSave.target_proj4 # None => Cardinality(OutputProj4s) = 1
    /\ IF Cardinality(OutputProj4s) = 1
          /\ OutputProj4s # {LONGITUDE_LATITUDE_PROJ4}
       THEN \E crs \in OutputProj4s : disk[X_PROJ4] = TextFile(crs)
       ELSE disk[X_PROJ4] = lastSave.sidecar_before

\* C8 as stated: for a table with rows, to_csv leaves out the geometry_layer
\* column exactly when all rows share one layer value, leaves out the
\* geometry_proj4 column exactly when all rows have one output CRS, then
\* writes the sidecar with that CRS if and only if it is not
\* longitude-latitude, and writes no sidecar when the output CRSs differ.
C8_OmitsSharedColumns ==
    SavedRows =>
        /\ WritesProj4
        /\ "geometry_layer" \notin Range(disk[X_CSV].columns)
               <=> Cardinality(LayerValues) = 1

\* C8, amended: the same, the layer values being compared after an empty
\* layer value is replaced by the stem of the target path.
C8_OmitsSharedColumnsOnTarget ==
    SavedRows =>
        /\ WritesProj4
        /\ "geometry_layer" \notin Range(disk[X_CSV].columns)
               <=> Cardinality(LayerValuesOnTarget) = 1

\* A table whose rows have an empty layer and the layer the target is named
\* after, and one CRS that is not longitude-latitude, was saved: both columns
\* are left out and the sidecar is written
C8_Witness ==
    /\ SavedRows
    /\ LayerValues = {"", "x"}
    /\ OutputProj4s = {UTM17_PROJ4}
    /\ disk[X_CSV].columns = <<"wkt", "">>
    /\ disk[X_PROJ4] = TextFile(UTM17_PROJ4)

\* The row of the table last saved, as a load is to return it
SavedPair(row) ==
    <<ToWkt(Reproject(row["geometry_object"], row["geometry_proj4"],
                      Or(lastSave.target_proj4, row["geometry_proj4"]))),
      normalize_proj4(Or(lastSave.target_proj4, row["geometry_proj4"]))>>

SavedPairs ==
    SeqToBag([i \in 1..Len(lastSave.table.rows) |->
                 SavedPair(lastSave.table.rows[i])])

\* C9: after any sequence of save_csv calls to one target path, the sidecar
\* exists if and only if the most recent save wrote a single CRS that is not
\* longitude-latitude, and then holds that CRS; a load that follows returns
\* the rows in the CRS of the most recent save.
C9_SidecarOfLastSave ==
    lastSave.saved =>
        /\ lastSave.error = ""
        /\ Exists(disk, X_PROJ4)
               <=> /\ Cardinality(OutputProj4s) = 1
                   /\ OutputProj4s # {LONGITUDE_LATITUDE_PROJ4}
        /\ Exists(disk, X_PROJ4) => disk[X_PROJ4].text \in OutputProj4s
        /\ op.name = "load" => ret.ok /\ Pairs(ret.table) = SavedPairs

\* C10: a table whose rows share one CRS that is not longitude-latitude
\* (directly or by target_proj4) is saved by save_csv to an archive path; a
\* load of the archive returns the saved geometries, labelled with that CRS.
C10_ArchiveRoundTrip ==
    (/\ lastSave.saved
     /\ lastSave.target_path = X_ZIP
     /\ Cardinality(OutputProj4s) = 1
     /\ OutputProj4s # {LONGITUDE_LATITUDE_PROJ4}
     /\ op.name = "load"
     /\ op.source_path = X_ZIP)
    => ret.ok /\ Pairs(ret.table) = SavedPairs

(***************************************************************************)
(* SpecGeometries: GeoTable.get_geometries on a table with its row labels. *)
(* index[i] is the label of row i (self.index); pandas lets labels repeat. *)
(***************************************************************************)
MaxLabelledRows == 3    \* rows of a table handed to get_geometries

\* Row i is handled before row j: groups in sorted key order, rows of a
\* group in table order.
HandledBefore(t, i, j) ==
    \/ Proj4Rank(t.rows[i]["geometry_proj4"]) < Proj4Rank(t.rows[j]["geometry_proj4"])
    \/ /\ t.rows[i]["geometry_proj4"] = t.rows[j]["geometry_proj4"]
       /\ i < j

\* The rows groupby hands out (a missing key's rows are left out)
Grouped(t) == {i \in 1..Len(t.rows) : t.rows[i]["geometry_proj4"] # NaN}

\* geometry_by_index: for each label, the geometry assigned to it last
geometry_by_index(t, index, target_proj4) ==
    [label \in {index[i] : i \in Grouped(t)} |->
        Let1(CHOOSE i \in Grouped(t) :
                /\ index[i] = label
                /\ \A j \in Grouped(t) \ {i} : index[j] = label => HandledBefore(t, j, i),
             LAMBDA last :
                transform_shapely_geometry(
                    get_transform_shapely_geometry(
                        t.rows[last]["geometry_proj4"], target_proj4),
                    t.rows[last]["geometry_object"]))] @@ <<>>

\* The body of get_geometries: [ok |-> TRUE, value |-> the list] or the error.
GetGeometriesBody(t, index, target_proj4) ==
    Let1({get_transform_shapely_geometry(t.rows[i]["geometry_proj4"], target_proj4) :
             i \in Grouped(t)}, LAMBDA fs :
    IF \E f \in fs : f.kind = "error"
    THEN Raise("GeoTableError", "proj4 unparseable")
    ELSE Let1(geometry_by_index(t, index, target_proj4), LAMBDA by_index :
    IF \E i \in 1..Len(index) : index[i] \notin DOMAIN by_index
    THEN Raise("KeyError", "not in index")
    ELSE [ok |-> TRUE,
          value |-> Strict([i \in 1..Len(index) |-> by_index[index[i]]])]))

\* GeoTable.get_geometries, wrapper included
get_geometries(t, index, target_proj4) ==
    Let1(_ensure_geotable_columns(t, NoPath), LAMBDA made :
    IF ~made.ok THEN made
    ELSE GetGeometriesBody(made.table, index, target_proj4))

Labels == 0..(MaxLabelledRows - 1)

LabelledProj4s == {LONGITUDE_LATITUDE_PROJ4, UTM17_PROJ4}

LabelledTargets == {None, LONGITUDE_LATITUDE_PROJ4, SPHERICAL_MERCATOR_PROJ4}

LabelledRows ==
    SeqsUpTo([geometry_object : SaveGeometries, geometry_proj4 : LabelledProj4s],
             MaxLabelledRows)

InitGeometries ==
    /\ disk = EmptyDisk
    /\ lastSave = NoSave
    /\ op \in {[name |-> "table",
                 t |-> [columns |-> <<"geometry_object", "geometry_proj4">>,
                        rows |-> rows],
                 index |-> index,
                 target_proj4 |-> target_proj4] :
                 rows \in LabelledRows, index \in SeqsUpTo(Labels, MaxLabelledRows),
                 target_proj4 \in LabelledTargets}
    /\ Len(op.index) = Len(op.t.rows)
    /\ ret = NoRet

GetGeometries ==
    /\ op.name = "table"
    /\ op' = [op EXCEPT !.name = "get_geometries"]
    /\ ret' = get_geometries(op.t, op.index, op.target_proj4)
    /\ UNCHANGED <<disk, lastSave>>

NextGeometries == GetGeometries

SpecGeometries == InitGeometries /\ [][NextGeometries]_vars

\* The geometry of row i of the table asked about, moved from the row's own
\* CRS to the target
RowGeometryIn(i) ==
    IF op.target_proj4 = None THEN op.t.rows[i]["geometry_object"]
    ELSE Reproject(op.t.rows[i]["geometry_object"],
                   op.t.rows[i]["geometry_proj4"], op.target_proj4)

InRowOrder ==
    /\ ret.ok
    /\ Len(ret.value) = Len(op.t.rows)
    /\ \A i \in 1..Len(op.t.rows) : ret.value[i] = RowGeometryIn(i)

\* C11: for every table of n rows, get_geometries(target) returns n
\* geometries, the i-th being the geometry of row i moved from that row's own
\* geometry_proj4 to the target (unchanged without a target), also when rows
\* of different CRSs are interleaved.
C11_GeometriesInRowOrder ==
    op.name = "get_geometries" => InRowOrder

\* The same, for the tables whose row labels are all different
C11_InRowOrderOnDistinctLabels ==
    (op.name = "get_geometries" /\ Distinct(op.index)) => InRowOrder

\* Three rows with different labels, CRSs interleaved, were asked for
C11_DistinctLabelsReached ==
    /\ op.name = "get_geometries"
    /\ Distinct(op.index)
    /\ Len(op.t.rows) = 3
    /\ op.t.rows[1]["geometry_proj4"] = UTM17_PROJ4
    /\ op.t.rows[2]["geometry_proj4"] = LONGITUDE_LATITUDE_PROJ4
    /\ op.t.rows[3]["geometry_proj4"] = UTM17_PROJ4
    /\ op.target_proj4 = SPHERICAL_MERCATOR_PROJ4
    /\ InRowOrder

(***************************************************************************)
(* Field definitions (_get_field_definitions).  A table may carry          *)
(* `dtypes`, the dtype name of each of its columns; a column without one   *)
(* holds Python objects.                                                   *)
(***************************************************************************)
DtypeChars(dtype_name) ==
    CASE dtype_name = "bool" -> <<"b", "o", "o", "l">>
      [] dtype_name = "boolean" -> <<"b", "o", "o", "l", "e", "a", "n">>
      [] dtype_name = "int8" -> <<"i", "n", "t", "8">>
      [] dtype_name = "int16" -> <<"i", "n", "t", "1", "6">>
      [] dtype_name = "int32" -> <<"i", "n", "t", "3", "2">>
      [] dtype_name = "int64" -> <<"i", "n", "t", "6", "4">>
      [] dtype_name = "uint8" -> <<"u", "i", "n", "t", "8">>
      [] dtype_name = "uint64" -> <<"u", "i", "n", "t", "6", "4">>
      [] dtype_name = "Int64" -> <<"I", "n", "t", "6", "4">>
      [] dtype_name = "float16" -> <<"f", "l", "o", "a", "t", "1", "6">>
      [] dtype_name = "float64" -> <<"f", "l", "o", "a", "t", "6", "4">>
      [] dtype_name = "datetime64[ns]" -> <<"d", "a", "t", "e", "t", "i", "m", "e", "6", "4", "[", "n", "s", "]">>
      [] dtype_name = "timedelta64[ns]" -> <<"t", "i", "m", "e", "d", "e", "l", "t", "a", "6", "4", "[", "n", "s", "]">>
      [] dtype_name = "object" -> <<"o", "b", "j", "e", "c", "t">>
      [] dtype_name = "category" -> <<"c", "a", "t", "e", "g", "o", "r", "y">>
      [] dtype_name = "complex128" -> <<"c", "o", "m", "p", "l", "e", "x", "1", "2", "8">>

DtypeNames ==
    {"bool", "boolean", "int8", "int16", "int32", "int64", "uint8", "uint64",
     "Int64", "float16", "float64", "datetime64[ns]", "timedelta64[ns]",
     "object", "category", "complex128"}

\* s.startswith(prefix)
StartsWith(s, prefix) ==
    /\ Len(s) >= Len(prefix)
    /\ SubSeq(s, 1, Len(prefix)) = prefix

\* An integer dtype of any sign, nullable or not
IsAnyInteger(s) ==
    \/ StartsWith(s, <<"i", "n", "t">>)
    \/ StartsWith(s, <<"u", "i", "n", "t">>)
    \/ StartsWith(s, <<"I", "n", "t">>)

\* The field type, with the unsigned and nullable integers taken as integers
FieldTypeAnyInteger(dtype_name) ==
    IF dtype_name \in {"bool", "int8", "int16", "int32", "uint8"} THEN "OFTInteger"
    ELSE IF IsAnyInteger(DtypeChars(dtype_name)) THEN "OFTInteger64"
    ELSE IF StartsWith(DtypeChars(dtype_name), <<"f", "l", "o", "a", "t">>) THEN "OFTReal"
    ELSE IF StartsWith(DtypeChars(dtype_name), <<"d", "a", "t", "e">>) THEN "OFTDate"
    ELSE "OFTString"

\* The if/elif chain of _get_field_definitions
FieldType(dtype_name) ==
    IF dtype_name \in {"bool", "int8", "int16", "int32"} THEN "OFTInteger"
    ELSE IF StartsWith(DtypeChars(dtype_name), <<"i", "n", "t">>) THEN "OFTInteger64"
    ELSE IF StartsWith(DtypeChars(dtype_name), <<"f", "l", "o", "a", "t">>) THEN "OFTReal"
    ELSE IF StartsWith(DtypeChars(dtype_name), <<"d", "a", "t", "e">>) THEN "OFTDate"
    ELSE IF dtype_name \in {"object", "category"} THEN "OFTString"
    ELSE "OFTString"        \* with the warning 'dtype not supported'

RESERVED_COLUMNS == {"geometry_object", "geometry_layer", "geometry_proj4"}

\* GeoTable.field_names
field_names(t) == Without(t.columns, RESERVED_COLUMNS)

\* geotable[field_name].dtype.name
DtypeName(t, field_name) ==
    IF "dtypes" \in DOMAIN t /\ field_name \in DOMAIN t.dtypes
    THEN t.dtypes[field_name] ELSE "object"

\* ogr.FieldDefn(field_name, field_type)
FieldDefn(field_name, field_type) == [name |-> field_name, type |-> field_type]

_get_field_definitions(geotable) ==
    Let1(field_names(geotable), LAMBDA names :
        Strict([k \in 1..Len(names) |->
            FieldDefn(names[k], FieldType(DtypeName(geotable, names[k])))]))

(***************************************************************************)
(* SpecFields: _get_field_definitions on the columns of a table.           *)
(***************************************************************************)
FieldColumnNames == {"name", "fid"} \cup RESERVED_COLUMNS

FieldColumnLists ==
    {s \in SeqsUpTo(FieldColumnNames, MaxColumns) : Distinct(s)}

FieldTables ==
    UNION {{[columns |-> columns, rows |-> <<>>, dtypes |-> dtypes] :
               dtypes \in [Range(columns) \ RESERVED_COLUMNS -> DtypeNames]} :
           columns \in FieldColumnLists}

InitFields ==
    /\ disk = EmptyDisk
    /\ lastSave = NoSave
    /\ op \in {[name |-> "table", t |-> t] : t \in FieldTables}
    /\ ret = NoRet

GetFieldDefinitions ==
    /\ op.name = "table"
    /\ op' = [op EXCEPT !.name = "_get_field_definitions"]
    /\ ret' = [ok |-> TRUE, value |-> _get_field_definitions(op.t)]
    /\ UNCHANGED <<disk, lastSave>>

NextFields == GetFieldDefinitions

SpecFields == InitFields /\ [][NextFields]_vars

\* The dtypes by the classes the claim names
BooleanOrNarrowIntegers == {"bool", "boolean", "int8", "int16", "int32", "uint8"}
WiderIntegers == {"int64", "uint64", "Int64"}
SignedNarrowIntegers == {"bool", "int8", "int16", "int32"}
SignedWiderIntegers == {"int64"}
FloatingPoints == {"float16", "float64"}
DateLikes == {"datetime64[ns]"}

\* One definition per attribute column, in column order
OnePerAttributeColumn ==
    /\ ret.ok
    /\ Len(ret.value) = Len(field_names(op.t))
    /\ \A k \in 1..Len(ret.value) : ret.value[k].name = field_names(op.t)[k]
    /\ \A k \in 1..Len(ret.value) : ret.value[k].name \notin RESERVED_COLUMNS
    /\ \A c \in Range(op.t.columns) \ RESERVED_COLUMNS :
           \E k \in 1..Len(ret.value) : ret.value[k].name = c

\* The type the classes narrow and wider give to a dtype
ClassType(dtype_name, narrow, wider) ==
    CASE dtype_name \in narrow -> "OFTInteger"
      [] dtype_name \in wider -> "OFTInteger64"
      [] dtype_name \in FloatingPoints -> "OFTReal"
      [] dtype_name \in DateLikes -> "OFTDate"
      [] OTHER -> "OFTString"

GdalDrivers == {"ESRI Shapefile", "GeoJSON", "LIBKML"}

\* gdal.GetDriverByName
GetDriverByName(driver_name) ==
    IF driver_name \in GdalDrivers THEN driver_name ELSE None

\* The extension of the files a driver writes
DriverExtension(driver_name) ==
    CASE driver_name = "ESRI Shapefile" -> ".shp"
      [] driver_name = "GeoJSON" -> ".geojson"
      [] driver_name = "LIBKML" -> ".kml"

\* gdal_driver.Create(gdal_dataset_path, 0, 0)
Create(driver_name) == [driver |-> driver_name, layers |-> <<>>]

Dtypes(t) == IF "dtypes" \in DOMAIN t THEN t.dtypes ELSE <<>>

WithDtypes(t, dtypes) ==
    [columns |-> t.columns, rows |-> t.rows, dtypes |-> dtypes]

\* Lexicographic order of the layer names (groupby sorts its keys)
LayerOrder == <<"", "a", "b", "d", "geotable", "x", "y">>

LayerRank(name) == CHOOSE i \in 1..Len(LayerOrder) : LayerOrder[i] = name

RECURSIVE SortedLayers(_)
SortedLayers(S) ==
    IF S = {} THEN <<>>
    ELSE Let1(CHOOSE p \in S : \A q \in S : LayerRank(p) <= LayerRank(q),
              LAMBDA first : <<first>> \o SortedLayers(S \ {first}))

\* table.groupby('geometry_layer'): the names in sorted order, the rows of a
\* missing name left out
LayerKeys(t) == SortedLayers(Unique(t, "geometry_layer") \ {NaN})

LayerTable(t, layer_name) ==
    [columns |-> t.columns,
     rows |-> SelectSeq(t.rows, LAMBDA r : r["geometry_layer"] = layer_name),
     dtypes |-> Dtypes(t)]

\* t.dropna(axis=1, how='all') (the geometries are never missing)
DropEmptyColumns(t) ==
    Let1({c \in Range(t.columns) \ {"geometry_object"} :
             \A i \in 1..Len(t.rows) : t.rows[i][c] = NaN}, LAMBDA empty :
        WithDtypes(DropColumns(t, empty), Dtypes(t)))

\* column.fillna('').astype(str) for the columns of objects
CoerceObjects(t) ==
    Let1({c \in Range(field_names(t)) : DtypeName(t, c) = "object"}, LAMBDA objects :
        [columns |-> t.columns,
         rows |-> Strict([i \in 1..Len(t.rows) |->
                     [c \in DOMAIN t.rows[i] |->
                         IF c \in objects /\ t.rows[i][c] = NaN THEN ""
                         ELSE t.rows[i][c]] @@ <<>>]),
         dtypes |-> Dtypes(t)])

\* The rows in the order the two loops of _prepare_gdal_layer take them
GroupPositions(t, key) ==
    SelectSeq([i \in 1..Len(t.rows) |-> i],
              LAMBDA i : t.rows[i]["geometry_proj4"] = key)

HandledOrder(t) ==
    Let1(GroupKeys(t), LAMBDA keys :
        Flatten(Strict([k \in 1..Len(keys) |-> GroupPositions(t, keys[k])])))

\* A shapefile takes the geometry type of its first feature and refuses a
\* feature of another type
CreateFeatureRefusesNothing(driver_name, first, g) == FALSE

\* gdal_layer.CreateFeature raises RuntimeError
CreateFeatureRefuses(driver_name, first, g) ==
    driver_name = "ESRI Shapefile" /\ g.type # first.type

\* The mutation of WriteFeature: the geometry is written as the row has it
WriteFeatureAsGiven(t, order, k, layer_proj4, driver_name) ==
    Let1(t.rows[order[k]], LAMBDA row :
    IF CreateFeatureRefuses(driver_name, t.rows[order[1]]["geometry_object"],
                            row["geometry_object"])
    THEN Raise("GeoTableError",
               "mutually incompatible geometry types must be in separate layers")
    ELSE [ok |-> TRUE,
          feature |-> [kind |-> "ok",
                       fid |-> [c \in Range(field_names(t)) |-> row[c]] @@ <<>>,
                       geometry |-> row["geometry_object"]]])

\* One turn of the inner loop: the feature, or the error raised
WriteFeature(t, order, k, layer_proj4, driver_name) ==
    Let1(t.rows[order[k]], LAMBDA row :
    Let1(get_transform_shapely_geometry(row["geometry_proj4"], layer_proj4),
         LAMBDA f :
    IF f.kind = "error" THEN Raise(f.error, "proj4 unparseable") ELSE
    Let1(transform_shapely_geometry(f, row["geometry_object"]), LAMBDA g :
    IF CreateFeatureRefuses(driver_name, t.rows[order[1]]["geometry_object"], g)
    THEN Raise("GeoTableError",
               "mutually incompatible geometry types must be in separate layers")
    ELSE [ok |-> TRUE,
          feature |-> [kind |-> "ok",
                       fid |-> [c \in Range(field_names(t)) |-> row[c]] @@ <<>>,
                       geometry |-> g]])))

\* The features written before the first error, and that error ("" if none)
WriteFeatures(t, layer_proj4, driver_name) ==
    Let1(HandledOrder(t), LAMBDA order :
    Let1(Strict([k \in 1..Len(order) |->
                    WriteFeature(t, order, k, layer_proj4, driver_name)]),
         LAMBDA steps :
    Let1({k \in 1..Len(steps) : ~steps[k].ok}, LAMBDA failed :
    Let1(IF failed = {} THEN Len(steps) ELSE Min(failed) - 1, LAMBDA done :
        [error |-> IF failed = {} THEN "" ELSE steps[Min(failed)].error,
         features |-> Strict([k \in 1..done |-> steps[k].feature])]))))

\* gdal_dataset.CreateLayer raises RuntimeError: a GeoJSON dataset takes
\* one layer
CreateLayerRefuses(gdal_dataset) ==
    gdal_dataset.driver = "GeoJSON" /\ Len(gdal_dataset.layers) >= 1

\* _prepare_gdal_layer: [error, dataset], the dataset with the layer as far
\* as it was written.
_prepare_gdal_layer(t0, gdal_dataset, target_proj4, layer_name) ==
    Let1(CoerceObjects(DropEmptyColumns(t0)), LAMBDA t :
    IF Falsy(target_proj4) /\ ~HasColumn(t, "geometry_proj4")
    THEN [error |-> "KeyError", dataset |-> gdal_dataset] ELSE
    Let1(Or(target_proj4, t.rows[1]["geometry_proj4"]), LAMBDA layer_proj4 :
    IF Proj4Error(layer_proj4) # ""
    THEN [error |-> Proj4Error(layer_proj4), dataset |-> gdal_dataset]
    ELSE IF CreateLayerRefuses(gdal_dataset)
    THEN [error |-> "RuntimeError", dataset |-> gdal_dataset]
    ELSE IF ~HasColumn(t, "geometry_proj4")
    THEN [error |-> "KeyError",
          dataset |-> [gdal_dataset EXCEPT !.layers = Append(@,
              [name |-> layer_name, srs |-> normalize_proj4(layer_proj4),
               fields |-> _get_field_definitions(t), features |-> <<>>])]]
    ELSE
    Let1(WriteFeatures(t, layer_proj4, gdal_dataset.driver), LAMBDA written :
        [error |-> written.error,
         dataset |-> [gdal_dataset EXCEPT !.layers = Append(@,
              [name |-> layer_name, srs |-> normalize_proj4(layer_proj4),
               fields |-> _get_field_definitions(t),
               features |-> written.features])]])))

\* The loop of to_gdal over the layers, up to the first error
RECURSIVE PrepareLayers(_, _, _, _)
PrepareLayers(table, gdal_dataset, target_proj4, layer_names) ==
    IF layer_names = <<>> THEN [error |-> "", dataset |-> gdal_dataset]
    ELSE Let1(_prepare_gdal_layer(LayerTable(table, Head(layer_names)),
                                  gdal_dataset, target_proj4, Head(layer_names)),
              LAMBDA prepared :
             IF prepared.error # "" THEN prepared
             ELSE PrepareLayers(table, prepared.dataset, target_proj4,
                                Tail(layer_names)))

\* compress(storage.folder, target_path): one file per layer
DatasetArchive(gdal_dataset) ==
    Archive(Strict([k \in 1..Len(gdal_dataset.layers) |->
        [path |-> Path(gdal_dataset.layers[k].name,
                       DriverExtension(gdal_dataset.driver)),
         file |-> GdalFile(<<gdal_dataset.layers[k]>>)]]))

\* The disk to_gdal leaves: an archive and a .kmz are produced only after
\* every layer is written, a dataset written in place stays as far as it got.
GdalTarget(folder, prepared, target_path) ==
    IF has_archive_extension(target_path)
    THEN IF prepared.error # "" THEN folder
         ELSE [folder EXCEPT ![target_path] = DatasetArchive(prepared.dataset)]
    ELSE IF target_path.ext = ".kmz"
    THEN IF prepared.error # "" THEN folder
         ELSE [folder EXCEPT ![target_path] =
                  Archive(<<[path |-> Path(get_file_stem(target_path), ".kml"),
                             file |-> GdalFile(prepared.dataset.layers)]>>)]
    ELSE [folder EXCEPT ![target_path] = GdalFile(prepared.dataset.layers)]

\* GeoTable.to_gdal (decorated): [error, disk]
to_gdal(folder, table, target_path, target_proj4, driver_name) ==
    Let1(_ensure_geotable_columns(table, target_path), LAMBDA ensured :
    IF ~ensured.ok THEN Saved(ensured.error, folder)
    ELSE IF GetDriverByName(driver_name) = None
    THEN Saved("GeoTableError", folder) ELSE
    Let1(_get_geometry_columns(ensured.table.columns), LAMBDA gc :
    Let1(WithDtypes(IF gc.ok THEN DropColumns(ensured.table, Range(gc.columns))
                    ELSE ensured.table, Dtypes(table)), LAMBDA t :
    Let1(PrepareLayers(t, Create(driver_name), target_proj4, LayerKeys(t)),
         LAMBDA prepared :
        Saved(prepared.error, GdalTarget(folder, prepared, target_path))))))

\* to_shp without its test of the extension
to_shp_unchecked(folder, table, target_path, target_proj4) ==
    to_gdal(folder, table, target_path, target_proj4, "ESRI Shapefile")

\* GeoTable.to_shp
to_shp(folder, table, target_path, target_proj4) ==
    IF ~has_archive_extension(target_path) THEN Saved("GeoTableError", folder)
    ELSE to_gdal(folder, table, target_path, target_proj4, "ESRI Shapefile")

(***************************************************************************)
(* SpecShp: tables are written as vector datasets and loaded back.         *)
(***************************************************************************)
X_SHP == Path("x", ".shp")

ShpDisk == [p \in Paths \cup {X_SHP} |-> NoFile]

InitShp ==
    /\ disk = ShpDisk
    /\ lastSave = NoSave
    /\ op = NoOp
    /\ ret = NoRet

MaxSaves == 2       \* writes of vector datasets in one behaviour

\* The writes made so far
SaveCount == IF lastSave.saved THEN lastSave.count ELSE 0

\* What a save is remembered by
SaveRecord(table, target_path, target_proj4, saved) ==
    [saved |-> TRUE, table |-> table, target_path |-> target_path,
     target_proj4 |-> target_proj4, error |-> saved.error, before |-> disk,
     count |-> SaveCount + 1]

\* table.save_shp(target_path, target_proj4)
SaveShp(table, target_path, target_proj4) ==
    /\ SaveCount < MaxSaves
    /\ \E saved \in {to_shp(disk, table, target_path, target_proj4)} :
        /\ disk' = saved.disk
        /\ lastSave' = SaveRecord(table, target_path, target_proj4, saved)
        /\ op' = [name |-> "save_shp", target_path |-> target_path,
                  target_proj4 |-> target_proj4, driver_name |-> "ESRI Shapefile"]
        /\ ret' = [ok |-> saved.error = "", error |-> saved.error]

\* table.to_gdal(target_path, target_proj4, driver_name)
ToGdal(table, target_path, target_proj4, driver_name) ==
    /\ SaveCount < MaxSaves
    /\ \E saved \in {to_gdal(disk, table, target_path, target_proj4, driver_name)} :
        /\ disk' = saved.disk
        /\ lastSave' = SaveRecord(table, target_path, target_proj4, saved)
        /\ op' = [name |-> "to_gdal", target_path |-> target_path,
                  target_proj4 |-> target_proj4, driver_name |-> driver_name]
        /\ ret' = [ok |-> saved.error = "", error |-> saved.error]

ShpProj4s == {LONGITUDE_LATITUDE_PROJ4, UTM17_PROJ4}

ShpRows ==
    [geometry_object : SaveGeometries, geometry_layer : SaveLayers,
     geometry_proj4 : ShpProj4s]

\* Tables with their reserved columns, tables of well-known-text alone, and
\* a table without geometry
ShpTables ==
    {EmptyGeoTable}
    \cup {GeoTableOf(rows) : rows \in SeqsUpTo(ShpRows, MaxRows)}
    \cup {[columns |-> <<"wkt">>, rows |-> rows] :
             rows \in SeqsUpTo([wkt : {ToWkt(g) : g \in SaveGeometries}], MaxRows)}
    \cup {[columns |-> <<"name">>, rows |-> <<[name |-> "a"]>>]}

ShpTargets == {X_ZIP, X_SHP}

ShpDrivers == {"ESRI Shapefile", "x"}

NextShp ==
    \/ \E table \in ShpTables, target_path \in ShpTargets,
          target_proj4 \in {None, UTM_PROJ4} :
            SaveShp(table, target_path, target_proj4)
    \/ \E table \in ShpTables, driver_name \in ShpDrivers :
            ToGdal(table, X_ZIP, None, driver_name)
    \/ Load(X_ZIP, None, None, FALSE, NoBox)

SpecShp == InitShp /\ [][NextShp]_vars

\* A table with rows and its three reserved columns was written as a
\* shapefile archive
WroteShp ==
    /\ op.name \in {"save_shp", "to_gdal"}
    /\ op.driver_name = "ESRI Shapefile"
    /\ has_archive_extension(op.target_path)
    /\ lastSave.table.columns = GeoTableOf(<<>>).columns

\* The layer of a row, an empty one standing for the stem of the target
LayerOnTarget(row) ==
    IF row["geometry_layer"] = "" THEN get_file_stem(lastSave.target_path)
    ELSE row["geometry_layer"]

\* Two rows of one layer have geometries of different types
MixedLayer(layer_of(_)) ==
    \E i, j \in 1..Len(lastSave.table.rows) :
        /\ layer_of(lastSave.table.rows[i]) = layer_of(lastSave.table.rows[j])
        /\ lastSave.table.rows[i]["geometry_object"].type
               # lastSave.table.rows[j]["geometry_object"].type

LayerAsGiven(row) == row["geometry_layer"]

\* The write fails with GeoTableError and leaves the target as it was
FailsWithoutArchive ==
    /\ ret.error = "GeoTableError"
    /\ disk[op.target_path] = lastSave.before[op.target_path]

\* C12 as stated: the write fails with GeoTableError, producing no archive,
\* whenever two rows of one geometry_layer value have geometries of
\* incompatible types, and succeeds when the rows of incompatible types lie
\* in different geometry_layer values.
C12_MixedLayerFails ==
    WroteShp =>
        IF MixedLayer(LayerAsGiven) THEN FailsWithoutArchive ELSE ret.ok

\* C12, amended: the same with the layer of a row taken after the empty
\* layer value is replaced by the file stem of the target path.
C12_MixedLayerOnTargetFails ==
    WroteShp =>
        IF MixedLayer(LayerOnTarget) THEN FailsWithoutArchive ELSE ret.ok

\* A point and a line of one layer were refused after an archive had been
\* written, and the archive of before is still there
C12_Witness ==
    /\ WroteShp
    /\ Len(lastSave.table.rows) = 2
    /\ lastSave.table.rows[1]["geometry_layer"] = "y"
    /\ lastSave.table.rows[2]["geometry_layer"] = "y"
    /\ MixedLayer(LayerOnTarget)
    /\ FailsWithoutArchive
    /\ disk[X_ZIP].kind = "archive"

\* A point and a line in two layers were written
C12_WitnessSeparateLayers ==
    /\ WroteShp
    /\ Len(lastSave.table.rows) = 2
    /\ lastSave.table.rows[1]["geometry_object"].type = "Point"
    /\ lastSave.table.rows[2]["geometry_object"].type = "LineString"
    /\ ~MixedLayer(LayerOnTarget)
    /\ ret.ok
    /\ Len(disk[X_ZIP].members) = 2

\* C13: save_shp to a path without archive extension fails with
\* GeoTableError, to_gdal with an unknown driver fails with GeoTableError, and
\* in both cases the disk is left as it was.
C13_RefusedBeforeWriting ==
    (\/ op.name = "save_shp" /\ ~has_archive_extension(op.target_path)
     \/ op.name = "to_gdal" /\ op.driver_name \notin GdalDrivers)
    => /\ ret.error = "GeoTableError"
       /\ disk = lastSave.before

\* Both refusals happened, the first on a table that a shapefile would take
C13_Witness ==
    /\ op.name = "save_shp"
    /\ op.target_path = X_SHP
    /\ Len(lastSave.table.rows) = 1
    /\ lastSave.table.columns = GeoTableOf(<<>>).columns
    /\ ret.error = "GeoTableError"
    /\ disk[X_ZIP].kind = "archive"

(***************************************************************************)
(* SpecFailures: CSV files that cannot be read, alone and as members of an *)
(* archive beside files that can.                                          *)
(***************************************************************************)
G_CSV == Path("g", ".csv")

\* The cells of an authored well-known-text column
WktCells == {ToWkt(Point(1, 2)), BadWkt, EmptyWkt}

\* A file of zero bytes, files without geometry columns, and files with a
\* well-known-text column
FailingCsvs ==
    {CsvFile(<<>>, <<>>),
     CsvFile(<<"name">>, <<>>),
     CsvFile(<<"name", "fid">>, <<[name |-> "a", fid |-> Ghost(Point(1, 2), None)]>>)}
    \cup {CsvFile(<<"name", "wkt">>, rows) :
             rows \in SeqsUpTo([name : {"a"}, wkt : WktCells], MaxRows)}

GoodCsv == CsvFile(<<"name", "wkt">>, <<[name |-> "g", wkt |-> ToWkt(Point(1, 2))]>>)

\* A file that is no vector dataset, under the name of a shapefile
FailingShps ==
    {<<>>,
     <<[path |-> B_SHP, file |-> TextFile("")]>>,
     <<[path |-> B_SHP,
        file |-> GdalFile(<<[name |-> "b", srs |-> "x",
                             features |-> <<Feature("ok", Point(1, 2), "x")>>]>>)]>>}

FailingDisks ==
    {[EmptyDisk EXCEPT ![X_CSV] = csv] : csv \in FailingCsvs}
    \cup {[EmptyDisk EXCEPT ![X_ZIP] =
              Archive(<<[path |-> A_CSV, file |-> csv],
                        [path |-> G_CSV, file |-> GoodCsv]>> \o shp)] :
             csv \in FailingCsvs, shp \in FailingShps}

\* GeoTable.from_csv(source_path, source_proj4, target_proj4)
FromCsv(source_path, source_proj4, target_proj4) ==
    /\ op' = [name |-> "from_csv", source_path |-> source_path,
              source_proj4 |-> source_proj4, target_proj4 |-> target_proj4]
    /\ ret' = from_csv(disk, source_path, source_proj4, target_proj4)
    /\ UNCHANGED <<disk, lastSave>>

NextFailures ==
    \/ \E files \in FailingDisks : Author(files)
    \/ \E target_proj4 \in {None, UTM_PROJ4} : FromCsv(X_CSV, None, target_proj4)
    \/ \E source_path \in {X_CSV, X_ZIP}, target_proj4 \in {None, UTM_PROJ4} :
            Load(source_path, None, target_proj4, FALSE, NoBox)

SpecFailures == Init /\ [][NextFailures]_vars

\* The file from_csv was asked to read
SourceFile == disk[op.source_path]

HasWktColumn(file) == "wkt" \in Range(file.columns)

\* Some row's well-known-text is the text given
HasWktCell(file, cell) ==
    /\ HasWktColumn(file)
    /\ \E i \in 1..Len(file.rows) : file.rows[i]["wkt"] = cell

RaisedGeoTableError ==
    /\ ~ret.ok
    /\ ret.error = "GeoTableError"

\* from_csv on a file without content, and on a file without geometry
\* columns
FailsOnFile ==
    /\ SourceFile.columns = <<>> =>
          ~ret.ok /\ ret.error = "EmptyGeoTableError"
    /\ (SourceFile.columns # <<>> /\ ~HasWktColumn(SourceFile)) =>
          RaisedGeoTableError /\ ret.message[2] = op.source_path

\* C14 as stated: from_csv raises EmptyGeoTableError on a source without
\* content, GeoTableError naming the path when no geometry columns resolve,
\* and GeoTableError when the well-known-text of any row cannot be parsed;
\* no table is returned.
C14_FromCsvFails ==
    (op.name = "from_csv" /\ SourceFile.kind = "csv") =>
        /\ FailsOnFile
        /\ (HasWktCell(SourceFile, BadWkt) \/ HasWktCell(SourceFile, EmptyWkt)) =>
              RaisedGeoTableError

\* The same, for the rows whose well-known-text is not empty
C14_FromCsvFailsOnText ==
    (op.name = "from_csv" /\ SourceFile.kind = "csv") =>
        /\ FailsOnFile
        /\ (HasWktCell(SourceFile, BadWkt) /\ ~HasWktCell(SourceFile, EmptyWkt)) =>
              RaisedGeoTableError

\* A good row followed by a row of bad text was refused
C14_TextRefused ==
    /\ op.name = "from_csv"
    /\ SourceFile.kind = "csv"
    /\ HasWktColumn(SourceFile)
    /\ Len(SourceFile.rows) = 2
    /\ SourceFile.rows[1]["wkt"] = ToWkt(Point(1, 2))
    /\ SourceFile.rows[2]["wkt"] = BadWkt
    /\ RaisedGeoTableError

\* The members of the archive load was asked to read that are CSV files or
\* shapefiles
Members ==
    {k \in 1..Len(SourceFile.members) :
        SourceFile.members[k].path.ext \in {".csv", ".shp"}}

\* Member k on its own cannot be loaded
MemberFails(k) ==
    LET path == SourceFile.members[k].path
        folder == MemberFolder(SourceFile)
    IN  IF path.ext = ".csv"
        THEN ~from_csv(folder, path, op.source_proj4, op.target_proj4).ok
        ELSE ~from_gdal(folder, path, op.source_proj4, op.target_proj4).ok

\* C15: a load fails whenever the file, or a CSV or shapefile contained in
\* the archive, cannot be loaded; no such member is left out silently.
C15_MemberFailureAborts ==
    (op.name = "load" /\ SourceFile.kind = "archive") =>
        ((\E k \in Members : MemberFails(k)) => ~ret.ok)

\* The same for a file that is no archive
C15_FileFailureAborts ==
    (op.name = "load" /\ SourceFile.kind = "csv") =>
        (~from_csv(disk, op.source_path, op.source_proj4, op.target_proj4).ok
            => ~ret.ok)

\* An archive of a CSV without geometry columns, a CSV that loads and a file
\* that is no shapefile was loaded: the table holds the rows of the one
C15_MembersLeftOut ==
    /\ op.name = "load"
    /\ SourceFile.kind = "archive"
    /\ Len(SourceFile.members) = 3
    /\ \E k \in Members : MemberFails(k)
    /\ ret.ok
    /\ Len(ret.table.rows) = 1

\* ---------------------------------------------------------------------
\* Field values read from a vector dataset (macros.py, _transform_field_value)
\* ---------------------------------------------------------------------

\* A field value: an integer, a text (its characters) or a list of integers
IntValue(v) == [kind |-> "int", ints |-> <<v>>, chars |-> <<>>]
TextValue(chars) == [kind |-> "str", ints |-> <<>>, chars |-> chars]
ListValue(ints) == [kind |-> "list", ints |-> ints, chars |-> <<>>]
DatetimeValue(ints) == [kind |-> "datetime", ints |-> ints, chars |-> <<>>]

GdalFieldTypes ==
    {"OFTInteger", "OFTInteger64", "OFTIntegerList", "OFTInteger64List",
     "OFTString", "OFTWideString", "OFTStringList", "OFTWideStringList",
     "OFTDate", "OFTDateTime", "OFTReal"}

ValueReturn(value) == [ok |-> TRUE, value |-> value]

Digits == <<"0", "1", "2", "3", "4", "5", "6", "7", "8", "9">>

\* int(x) of one character of a text
IntOfChar(c) ==
    IF \E d \in 1..10 : Digits[d] = c
    THEN ValueReturn((CHOOSE d \in 1..10 : Digits[d] = c) - 1)
    ELSE Raise("ValueError", "invalid literal for int()")

\* map(int, field_value): the items of a list, the characters of a text
MapInt(field_value) ==
    IF field_value.kind = "list"
    THEN [i \in 1..Len(field_value.ints) |-> ValueReturn(field_value.ints[i])]
    ELSE IF field_value.kind = "str"
    THEN [i \in 1..Len(field_value.chars) |-> IntOfChar(field_value.chars[i])]
    ELSE <<Raise("TypeError", "object is not iterable")>>

\* The integers a C int cannot hold, all of them as the largest integer
\* the checker computes with
BeyondCInt == 2147483647

IsLeap(year) == year % 4 = 0 /\ (year % 100 # 0 \/ year % 400 = 0)

DaysInMonth(year, month) ==
    IF month = 2 THEN (IF IsLeap(year) THEN 29 ELSE 28)
    ELSE IF month \in {4, 6, 9, 11} THEN 30 ELSE 31

DateInRange(a) ==
    /\ a[1] \in 1..9999
    /\ a[2] \in 1..12
    /\ a[3] \in 1..DaysInMonth(a[1], a[2])
    /\ Len(a) >= 4 => a[4] \in 0..23
    /\ Len(a) >= 5 => a[5] \in 0..59
    /\ Len(a) >= 6 => a[6] \in 0..59
    /\ Len(a) >= 7 => a[7] \in 0..999999

\* datetime(*args)
datetime(args) ==
    IF Len(args) < 3 \/ Len(args) > 7
    THEN Raise("TypeError", "function missing required argument")
    ELSE IF \E i \in 1..Len(args) : args[i] >= BeyondCInt
    THEN Raise("OverflowError", "signed integer is greater than maximum")
    ELSE IF ~DateInRange(args)
    THEN Raise("ValueError", "is out of range")
    ELSE ValueReturn(DatetimeValue(args))

\* int(field_value)
IntOf(field_value) ==
    IF field_value.kind = "int" THEN ValueReturn(field_value)
    ELSE IF field_value.kind = "str"
    THEN (IF Len(field_value.chars) = 1
          THEN Let1(IntOfChar(field_value.chars[1]), LAMBDA r :
                   IF r.ok THEN ValueReturn(IntValue(r.value)) ELSE r)
          ELSE Raise("ValueError", "invalid literal for int()"))
    ELSE Raise("TypeError", "int() argument must be a string or a number")

_transform_field_value(field_value, field_type) ==
    IF field_type \in {"OFTInteger", "OFTInteger64"}
    THEN IntOf(field_value)
    ELSE IF field_type \in {"OFTIntegerList", "OFTInteger64List"}
    THEN Let1(MapInt(field_value), LAMBDA items :
            IF \E i \in 1..Len(items) : ~items[i].ok
            THEN items[Min({i \in 1..Len(items) : ~items[i].ok})]
            ELSE ValueReturn(ListValue([i \in 1..Len(items) |-> items[i].value])))
    ELSE IF field_type \in {"OFTDate", "OFTDateTime"}
    THEN Let1(MapInt(field_value), LAMBDA items :
            IF \E i \in 1..Len(items) : ~items[i].ok
            THEN Let1(items[Min({i \in 1..Len(items) : ~items[i].ok})], LAMBDA e :
                    IF e.error \in {"OverflowError", "ValueError"}
                    THEN ValueReturn(field_value)
                    ELSE e)
            ELSE Let1(datetime([i \in 1..Len(items) |-> items[i].value]), LAMBDA made :
                    IF made.ok THEN made
                    ELSE IF made.error \in {"OverflowError", "ValueError"}
                    THEN ValueReturn(field_value)
                    ELSE made))
    ELSE ValueReturn(field_value)

\* SpecFieldValue: one field value of one field type is transformed
DateYears == {0, 2000, 2001, BeyondCInt}
DateMonths == {0, 2, 13}
DateDays == {1, 29, 30}
DateHours == {0, 24}

DateLists ==
    {<<y, m, d, h, 0, 0, 0>> :
        y \in DateYears, m \in DateMonths, d \in DateDays, h \in DateHours}
    \cup {<<2000, 2>>, <<2000, 2, 1>>}

FieldValues ==
    {ListValue(a) : a \in DateLists}
    \cup {TextValue(<<"x">>), TextValue(<<"7">>), TextValue(<<"1", "2">>),
          TextValue(<<"1", "2", "3">>), IntValue(5)}

InitFieldValue ==
    /\ disk = EmptyDisk
    /\ lastSave = NoSave
    /\ op \in {[name |-> "table", field_value |-> v, field_type |-> f] :
                 v \in FieldValues, f \in GdalFieldTypes}
    /\ ret = NoRet

TransformFieldValue ==
    /\ op.name = "table"
    /\ op' = [op EXCEPT !.name = "_transform_field_value"]
    /\ ret' = _transform_field_value(op.field_value, op.field_type)
    /\ UNCHANGED <<disk, lastSave>>

NextFieldValue == TransformFieldValue

SpecFieldValue == InitFieldValue /\ [][NextFieldValue]_vars

Transformed == op.name = "_transform_field_value"

DateField == Transformed /\ op.field_type \in {"OFTDate", "OFTDateTime"}

\* The components of the field convert to integers that make a valid date
WellFormedDate ==
    /\ op.field_value.kind \in {"list", "str"}
    /\ \A i \in 1..Len(MapInt(op.field_value)) : MapInt(op.field_value)[i].ok
    /\ Len(MapInt(op.field_value)) \in 3..7
    /\ \A i \in 1..Len(op.field_value.ints) : op.field_value.ints[i] < BeyondCInt
    /\ DateInRange([i \in 1..Len(MapInt(op.field_value)) |->
                        MapInt(op.field_value)[i].value])

NullValue == [kind |-> "null", ints |-> <<>>, chars |-> <<>>]

\* C16: a date or datetime field whose components make no valid date is
\* transformed to null: nothing is raised and the raw value is not returned.
C16_MalformedDateGivesNull ==
    (DateField /\ ~WellFormedDate) =>
        (ret.ok /\ ret.value = NullValue /\ ret.value # op.field_value)

\* What the transformation does for the component lists a dataset hands
\* over: a valid date is built, any other list comes back as it was read
C16_MalformedDateReturnedRaw ==
    (DateField /\ op.field_value.kind = "list" /\ Len(op.field_value.ints) = 7) =>
        /\ ret.ok
        /\ WellFormedDate => ret.value = DatetimeValue(op.field_value.ints)
        /\ ~WellFormedDate => ret.value = op.field_value

\* A date field of month 13 was transformed and came back as it was read
C16_RawReturned ==
    /\ DateField
    /\ op.field_value.kind = "list"
    /\ Len(op.field_value.ints) = 7
    /\ op.field_value.ints[2] = 13
    /\ ret.ok
    /\ ret.value = op.field_value

\* ---------------------------------------------------------------------
\* load with a bounding box (C18), over the behaviours of SpecLoad
\* ---------------------------------------------------------------------

\* The bounding box, given in longitude-latitude, in the coordinates of a CRS
BoxIn(bounding_box, proj4) ==
    Box(Reproject(bounding_box.lo, LONGITUDE_LATITUDE_PROJ4, proj4),
        Reproject(bounding_box.hi, LONGITUDE_LATITUDE_PROJ4, proj4))

\* The geometry of the row intersects the box moved into the row's CRS
RowInBox(row) ==
    Let1(BoxIn(op.bounding_box, row["geometry_proj4"]), LAMBDA b :
        Intersects(row["geometry_object"], b.lo, b.hi))

\* The geometry of the row intersects the box taken as it was given
RowInGivenBox(row) ==
    Intersects(row["geometry_object"], op.bounding_box.lo, op.bounding_box.hi)

\* The same load without the bounding box
Unboxed ==
    load(disk, op.source_path, op.source_proj4, op.target_proj4, op.drop_z, NoBox)

LoadedInBox == op.name = "load" /\ op.bounding_box.given /\ ret.ok

\* C18: load with a bounding box returns, in row order, exactly the rows
\* whose geometry intersects the box reprojected from longitude-latitude
\* into the CRS of the returned geometries, with and without target_proj4.
C18_RowsInReprojectedBox ==
    LoadedInBox =>
        /\ Unboxed.ok
        /\ ret.table.columns = Unboxed.table.columns
        /\ ret.table.rows = SelectSeq(Unboxed.table.rows, RowInBox)

\* With target_proj4 the box is reprojected into it; without, the box is
\* compared as it was given, whatever the CRS of the rows
C18_BoxReprojectedToTarget ==
    LoadedInBox =>
        /\ Unboxed.ok
        /\ ret.table.columns = Unboxed.table.columns
        /\ op.target_proj4 # None =>
               ret.table.rows = SelectSeq(Unboxed.table.rows, RowInBox)
        /\ op.target_proj4 = None =>
               ret.table.rows = SelectSeq(Unboxed.table.rows, RowInGivenBox)

\* A load into a target CRS other than longitude-latitude kept one row and
\* left one out
C18_SomeRowsInBox ==
    /\ LoadedInBox
    /\ op.target_proj4 = UTM_PROJ4
    /\ Len(ret.table.rows) >= 1
    /\ Len(ret.table.rows) < Len(Unboxed.table.rows)

\* A load without target_proj4 returned a row that lies outside the box in
\* the row's own CRS
C18_RowOutsideReturned ==
    /\ LoadedInBox
    /\ op.target_proj4 = None
    /\ \E i \in 1..Len(ret.table.rows) : ~RowInBox(ret.table.rows[i])

\* ---------------------------------------------------------------------
\* Duplicate geometries (GeoTable.drop_duplicate_geometries)
\* ---------------------------------------------------------------------

\* t.drop_duplicates(subset=['geometry_wkb']): the positions that stay
FirstOccurrences(wkbs) ==
    {i \in 1..Len(wkbs) : \A j \in 1..(i - 1) : wkbs[j] # wkbs[i]}

\* The rows of t at the positions of S, in table order
RowsAt(t, S) ==
    [columns |-> t.columns,
     rows |-> Let1(Strict([i \in 1..Len(t.rows) |-> <<i, t.rows[i]>>]), LAMBDA numbered :
                 Let1(SelectSeq(numbered, LAMBDA p : p[1] \in S), LAMBDA kept :
                     Strict([k \in 1..Len(kept) |-> kept[k][2]])))]

\* drop_duplicate_geometries: [ok |-> TRUE, table, self], with self the
\* receiver after the call, or the error raised by t.geometries
drop_duplicate_geometries(self, inplace) ==
    Let1(_ensure_geotable_columns(self, NoPath), LAMBDA ensured :
    IF ~ensured.ok
    THEN [ok |-> FALSE, error |-> ensured.error, message |-> ensured.message,
          self |-> self]
    ELSE
    Let1(Strict([i \in 1..Len(ensured.table.rows) |->
                    ToWkb(ensured.table.rows[i]["geometry_object"])]), LAMBDA wkbs :
    Let1(SetColumn(self, "geometry_wkb", wkbs), LAMBDA t :
    Let1(DropColumns(RowsAt(t, FirstOccurrences(wkbs)), {"geometry_wkb"}),
         LAMBDA dropped :
        [ok |-> TRUE, table |-> dropped,
         self |-> IF inplace THEN dropped ELSE self]))))

\* SpecDuplicates: a table is deduplicated, in place or not, up to MaxDrops
\* times in a row
MaxDrops == 2
MaxDuplicateRows == 3

DuplicateGeometries == {Point(0, 0), Point(0, 1), LineString(0, 0)}

NamedRows ==
    SeqsUpTo({("name" :> n) @@ ("geometry_object" :> g) :
                 n \in {"a", "b"}, g \in DuplicateGeometries}, MaxDuplicateRows)

LonLatRows ==
    SeqsUpTo({("LON" :> x) @@ ("LAT" :> y) : x \in {0, 1}, y \in {0, 1}}, MaxDuplicateRows)

WkbNamedRows ==
    SeqsUpTo({("geometry_wkb" :> n) @@ ("geometry_object" :> g) :
                 n \in {"a"}, g \in {Point(0, 0), Point(0, 1)}}, 2)

DuplicateTables ==
    {[columns |-> <<"name", "geometry_object">>, rows |-> rows] : rows \in NamedRows}
    \cup {[columns |-> <<"LON", "LAT">>, rows |-> rows] : rows \in LonLatRows}
    \cup {[columns |-> <<"geometry_wkb", "geometry_object">>, rows |-> rows] :
             rows \in WkbNamedRows}
    \cup {[columns |-> <<"name">>, rows |-> <<("name" :> "a")>>]}

InitDuplicates ==
    /\ disk = EmptyDisk
    /\ lastSave = NoSave
    /\ op \in {[name |-> "table", self |-> t, before |-> t, inplace |-> FALSE,
                count |-> 0] : t \in DuplicateTables}
    /\ ret = NoRet

DropDuplicateGeometries(inplace) ==
    /\ op.count < MaxDrops
    /\ \E result \in {drop_duplicate_geometries(op.self, inplace)} :
        /\ op' = [name |-> "drop_duplicate_geometries", self |-> result.self,
                  before |-> op.self, inplace |-> inplace, count |-> op.count + 1]
        /\ ret' = [f \in (DOMAIN result) \ {"self"} |-> result[f]]
    /\ UNCHANGED <<disk, lastSave>>

NextDuplicates == \E inplace \in BOOLEAN : DropDuplicateGeometries(inplace)

SpecDuplicates == InitDuplicates /\ [][NextDuplicates]_vars

Deduplicated == op.name = "drop_duplicate_geometries" /\ ret.ok

\* The geometry of row i of the receiver as it was before the call
GeometryBefore(i) ==
    _ensure_geotable_columns(op.before, NoPath).table.rows[i]["geometry_object"]

\* The rows before the call that repeat the geometry of no earlier row
FirstOfEachGeometry ==
    {i \in 1..Len(op.before.rows) :
        \A j \in 1..(i - 1) : ToWkb(GeometryBefore(j)) # ToWkb(GeometryBefore(i))}

\* The k-th position of a set of positions
Nth(S, k) == CHOOSE i \in S : Cardinality({j \in S : j <= i}) = k

\* The rows returned are the first occurrences, in their order
ReturnsFirstOccurrences ==
    /\ Len(ret.table.rows) = Cardinality(FirstOfEachGeometry)
    /\ \A k \in 1..Len(ret.table.rows) :
           ret.table.rows[k] = op.before.rows[Nth(FirstOfEachGeometry, k)]

ReceiverAsAsked ==
    /\ ~op.inplace => op.self = op.before
    /\ op.inplace => op.self = ret.table

\* A second application, in place or not, returns the table of the first
OnceIsEnough ==
    \A inplace \in BOOLEAN :
        /\ drop_duplicate_geometries(ret.table, inplace).ok
        /\ drop_duplicate_geometries(ret.table, inplace).table = ret.table

\* C19: drop_duplicate_geometries returns the rows that are the first of
\* each distinct geometry (by exact WKB), in order and with the columns of
\* the receiver; the receiver is unchanged unless inplace, and then is the
\* result; applying it twice gives what applying it once gives.
C19_FirstOccurrencesKept ==
    Deduplicated =>
        /\ ret.table.columns = op.before.columns
        /\ ReturnsFirstOccurrences
        /\ ReceiverAsAsked
        /\ OnceIsEnough

\* The same for a receiver that has no column named geometry_wkb; for one
\* that has, the rows come back without that column
C19_FirstOccurrencesKeptOfOtherColumns ==
    Deduplicated =>
        /\ ret.table.columns = Without(op.before.columns, {"geometry_wkb"})
        /\ ~HasColumn(op.before, "geometry_wkb") => ReturnsFirstOccurrences
        /\ ReceiverAsAsked
        /\ OnceIsEnough

\* A table of three rows, the first two of one geometry and different
\* names, was reduced in place to two rows
C19_DuplicateDropped ==
    /\ Deduplicated
    /\ op.inplace
    /\ Len(op.before.rows) = 3
    /\ HasColumn(op.before, "name")
    /\ ToWkb(GeometryBefore(1)) = ToWkb(GeometryBefore(2))
    /\ op.before.rows[1] # op.before.rows[2]
    /\ Len(op.self.rows) = 2

\* A table with a column named geometry_wkb came back without it
C19_ColumnLost ==
    /\ Deduplicated
    /\ HasColumn(op.before, "geometry_wkb")
    /\ ~HasColumn(ret.table, "geometry_wkb")

\* ---------------------------------------------------------------------
\* The decorated operations (C20): to_csv, to_gdal, draw, get_geometries
\* and geometries, each on a table that may lack reserved columns
\* ---------------------------------------------------------------------

\* GeoTable.geometries (decorated property)
geometries(t) ==
    Let1(_ensure_geotable_columns(t, NoPath), LAMBDA made :
    IF ~made.ok THEN made
    ELSE [ok |-> TRUE,
          value |-> Strict([i \in 1..Len(made.table.rows) |->
                       made.table.rows[i]["geometry_object"]])])

\* GeoTable.draw (decorated): the geometries of each layer, in spherical
\* mercator, the layers in the order of groupby
draw(t) ==
    Let1(_ensure_geotable_columns(t, NoPath), LAMBDA made :
    IF ~made.ok THEN made ELSE
    Let1(LayerKeys(made.table), LAMBDA keys :
    Let1(Strict([k \in 1..Len(keys) |->
                    Let1(LayerTable(made.table, keys[k]), LAMBDA x :
                        get_geometries(x, [i \in 1..Len(x.rows) |-> i],
                                       SPHERICAL_MERCATOR_PROJ4))]),
         LAMBDA collections :
    IF \E k \in 1..Len(collections) : ~collections[k].ok
    THEN collections[Min({k \in 1..Len(collections) : ~collections[k].ok})]
    ELSE [ok |-> TRUE,
          value |-> Strict([k \in 1..Len(collections) |-> collections[k].value])])))

\* SpecReserved: one decorated operation is called on a table
ReservedOrder == <<"geometry_object", "geometry_layer", "geometry_proj4">>

Bases == {"lonlat", "wkt", "name"}

BaseColumns(base) ==
    CASE base = "lonlat" -> <<"LON", "LAT">>
      [] base = "wkt" -> <<"WKT">>
      [] base = "name" -> <<"name">>

BaseRows(base) ==
    CASE base = "lonlat" -> {("LON" :> x) @@ ("LAT" :> 1) : x \in {0, 1}}
      [] base = "wkt" -> {("WKT" :> w) : w \in {ToWkt(Point(0, 1)), BadWkt}}
      [] base = "name" -> {("name" :> "a")}

ReservedCells(c) ==
    CASE c = "geometry_object" -> {Point(5, 5), LineString(6, 6)}
      [] c = "geometry_layer" -> {"", "a"}
      [] c = "geometry_proj4" -> {LONGITUDE_LATITUDE_PROJ4, UTM17_PROJ4}

\* The rows with one more column
WithCells(rows, present, c) ==
    IF c \in present THEN {(c :> v) @@ r : r \in rows, v \in ReservedCells(c)}
    ELSE rows

ReservedRows(base, present) ==
    WithCells(WithCells(WithCells(BaseRows(base), present, "geometry_object"),
                        present, "geometry_layer"), present, "geometry_proj4")

ReservedTables ==
    UNION {{[columns |-> BaseColumns(bp[1])
                 \o SelectSeq(ReservedOrder, LAMBDA c : c \in bp[2]),
             rows |-> rows] :
               rows \in SeqsUpTo(ReservedRows(bp[1], bp[2]), MaxRows)} :
           bp \in Bases \X SUBSET RESERVED_COLUMNS}

InitReserved ==
    /\ disk = ShpDisk
    /\ lastSave = NoSave
    /\ op \in {[name |-> "table", t |-> t, target_path |-> NoPath,
                self |-> Return(t)] : t \in ReservedTables}
    /\ ret = NoRet

\* An operation with a target_path: self is what the wrapper hands to the body
CallToCsv(target_path) ==
    /\ op.name = "table"
    /\ \E saved \in {to_csv(disk, op.t, target_path, None)} :
        /\ disk' = saved.disk
        /\ ret' = [ok |-> saved.error = "", error |-> saved.error]
    /\ op' = [op EXCEPT !.name = "to_csv", !.target_path = target_path,
                        !.self = _ensure_geotable_columns(op.t, target_path)]
    /\ UNCHANGED lastSave

CallToGdal(target_path, driver_name) ==
    /\ op.name = "table"
    /\ \E saved \in {to_gdal(disk, op.t, target_path, None, driver_name)} :
        /\ disk' = saved.disk
        /\ ret' = [ok |-> saved.error = "", error |-> saved.error]
    /\ op' = [op EXCEPT !.name = "to_gdal", !.target_path = target_path,
                        !.self = _ensure_geotable_columns(op.t, target_path)]
    /\ UNCHANGED lastSave

CallDraw ==
    /\ op.name = "table"
    /\ ret' = draw(op.t)
    /\ op' = [op EXCEPT !.name = "draw",
                        !.self = _ensure_geotable_columns(op.t, NoPath)]
    /\ UNCHANGED <<disk, lastSave>>

CallGetGeometries(target_proj4) ==
    /\ op.name = "table"
    /\ ret' = get_geometries(op.t, [i \in 1..Len(op.t.rows) |-> i], target_proj4)
    /\ op' = [op EXCEPT !.name = "get_geometries",
                        !.self = _ensure_geotable_columns(op.t, NoPath)]
    /\ UNCHANGED <<disk, lastSave>>

CallGeometries ==
    /\ op.name = "table"
    /\ ret' = geometries(op.t)
    /\ op' = [op EXCEPT !.name = "geometries",
                        !.self = _ensure_geotable_columns(op.t, NoPath)]
    /\ UNCHANGED <<disk, lastSave>>

NextReserved ==
    \/ CallToCsv(X_CSV)
    \/ CallToGdal(X_ZIP, "ESRI Shapefile")
    \/ CallDraw
    \/ \E target_proj4 \in {None, UTM17_PROJ4} : CallGetGeometries(target_proj4)
    \/ CallGeometries

SpecReserved == InitReserved /\ [][NextReserved]_vars

DecoratedOperations == {"to_csv", "to_gdal", "draw", "get_geometries", "geometries"}

Decorated == op.name \in DecoratedOperations

\* The geometry the geometry columns of a row of the receiver stand for
DerivedGeometry(row) ==
    IF "WKT" \in DOMAIN row THEN FromWkt(row["WKT"])
    ELSE Point(row["LON"], row["LAT"])

\* The layer the body sees for a layer value of the receiver
LayerSeen(layer) ==
    IF layer = "" /\ op.target_path # NoPath
    THEN get_file_stem(op.target_path) ELSE layer

\* Row i of the table the body works on is row i of the receiver with the
\* reserved columns filled
RowEnsured(i) ==
    LET given == op.t.rows[i]
        seen == op.self.table.rows[i]
    IN  /\ \A c \in DOMAIN given \ {"geometry_layer"} : seen[c] = given[c]
        /\ DOMAIN seen = DOMAIN given \cup RESERVED_COLUMNS
        /\ "geometry_proj4" \notin DOMAIN given =>
               seen["geometry_proj4"] = LONGITUDE_LATITUDE_PROJ4
        /\ seen["geometry_layer"] =
               LayerSeen(IF "geometry_layer" \in DOMAIN given
                         THEN given["geometry_layer"] ELSE "")
        /\ "geometry_object" \notin DOMAIN given =>
               seen["geometry_object"] = DerivedGeometry(given)

\* The wrapper fails only for want of a geometry: no geometry_object, rows,
\* and geometry columns that are missing or hold no well-known-text
NoGeometry ==
    /\ ~HasColumn(op.t, "geometry_object")
    /\ Len(op.t.rows) > 0
    /\ \/ HasColumn(op.t, "name")
       \/ /\ HasColumn(op.t, "WKT")
          /\ \E i \in 1..Len(op.t.rows) : op.t.rows[i]["WKT"] = BadWkt

\* C20: the body of a decorated operation works on a table that has the
\* three reserved columns: missing ones filled (CRS longitude-latitude,
\* layer '', geometry derived from the geometry columns, a placeholder
\* column for no rows), present ones kept, empty layers replaced by the
\* stem of target_path for the operations that have one.
C20_ReservedColumnsEnsured ==
    Decorated =>
        /\ op.self.ok <=> ~NoGeometry
        /\ op.self.ok =>
            /\ RESERVED_COLUMNS \subseteq Range(op.self.table.columns)
            /\ Range(op.self.table.columns) = Range(op.t.columns) \cup RESERVED_COLUMNS
            /\ Len(op.self.table.rows) = Len(op.t.rows)
            /\ \A i \in 1..Len(op.t.rows) : RowEnsured(i)
        /\ (op.name = "geometries" /\ op.self.ok) =>
            /\ ret.ok
            /\ ret.value = [i \in 1..Len(op.t.rows) |->
                               op.self.table.rows[i]["geometry_object"]]
        /\ ~op.self.ok => ~ret.ok

\* to_csv ran on a table of two rows that had none of the reserved columns:
\* the body got the CRS filled, the layer from the target and two different
\* geometries derived from the coordinates
C20_Witness ==
    /\ Decorated
    /\ op.self.ok
    /\ Len(op.t.rows) = 2
    /\ Range(op.t.columns) \cap RESERVED_COLUMNS = {}
    /\ op.name = "to_csv"
    /\ \A i \in 1..2 : op.self.table.rows[i]["geometry_layer"] = "x"
    /\ \A i \in 1..2 : op.self.table.rows[i]["geometry_proj4"] = LONGITUDE_LATITUDE_PROJ4
    /\ op.self.table.rows[1]["geometry_object"] # op.self.table.rows[2]["geometry_object"]

\* A present empty layer next to a named one, under an operation without
\* target_path: both are kept
C20_WitnessKept ==
    /\ op.name = "geometries"
    /\ op.self.ok
    /\ Len(op.t.rows) = 2
    /\ HasColumn(op.t, "geometry_layer")
    /\ op.self.table.rows[1]["geometry_layer"] = ""
    /\ op.self.table.rows[2]["geometry_layer"] = "a"

\* A table without rows got the placeholder column
C20_WitnessNoRows ==
    /\ Decorated
    /\ op.self.ok
    /\ Len(op.t.rows) = 0
    /\ ~HasColumn(op.t, "geometry_object")
    /\ HasColumn(op.self.table, "geometry_object")

\* ---------------------------------------------------------------------
\* The cache of downloads (macros.py, URICache)
\* ---------------------------------------------------------------------

\* index.json: missing, or the relative path of each URI
NoIndex == [exists |-> FALSE, map |-> <<>>]
IndexOf(map) == [exists |-> TRUE, map |-> map @@ <<>>]

\* A cache folder: its index, the files mkstemp made in it and their number
CacheOf(folder) == [folder |-> folder, index |-> NoIndex, files |-> {}, made |-> 0]

\* os.path.abspath of a cache folder, for the working directory /cwd
abspath(folder) == IF folder = "cache" THEN "/cwd/cache" ELSE folder

\* os.path.join(folder, relative_path)
join(folder, relative_path) == [dir |-> folder, name |-> relative_path]

\* os.path.relpath(path, folder) for a path mkstemp made in the folder
relpath(path, folder) == path.name

\* The file a path denotes
FileOf(path) == [dir |-> abspath(path.dir), name |-> path.name]

NoCachePath == [dir |-> "", name |-> 0]

\* URICache._load_relative_path_by_uri
_load_relative_path_by_uri(cache) ==
    IF cache.index.exists THEN [ok |-> TRUE, value |-> cache.index.map]
    ELSE Raise("OSError", "index.json")

\* URICache.get: the path, or NoCachePath for None
get(cache, uri) ==
    Let1(_load_relative_path_by_uri(cache), LAMBDA loaded :
    IF ~loaded.ok THEN NoCachePath
    ELSE IF uri \notin DOMAIN loaded.value THEN NoCachePath
    ELSE join(cache.folder, loaded.value[uri]))

\* The first statement of set: the index as loaded, {} when there is none
SetLoad(cache) ==
    Let1(_load_relative_path_by_uri(cache), LAMBDA loaded :
        IF loaded.ok THEN loaded.value ELSE <<>>)

\* mkstemp(dir=self.folder, prefix='')[1]: a new file of a name not in use
mkstemp(cache) ==
    [path |-> join(abspath(cache.folder), cache.made + 1),
     cache |-> [cache EXCEPT !.files = @ \cup {cache.made + 1},
                             !.made = @ + 1]]

\* The mutation of SetSave: the entry is put into the index as it is on disk
\* at the time of writing
SetSaveOnCurrent(cache, relative_path_by_uri, uri, path) ==
    [cache EXCEPT !.index =
        IndexOf((uri :> relpath(path, cache.folder)) @@ SetLoad(cache))]

\* The last statements of set: the entry is put into the index that was
\* loaded and the index is written
SetSave(cache, relative_path_by_uri, uri, path) ==
    [cache EXCEPT !.index =
        IndexOf((uri :> relpath(path, cache.folder)) @@ relative_path_by_uri)]

\* URICache.set: [ok, path, cache]; downloaded tells whether download(uri,
\* path) returned or raised
set(cache, uri, downloaded) ==
    Let1(SetLoad(cache), LAMBDA relative_path_by_uri :
    Let1(mkstemp(cache), LAMBDA made :
    IF ~downloaded
    THEN [ok |-> FALSE, path |-> NoCachePath, cache |-> made.cache]
    ELSE [ok |-> TRUE, path |-> made.path,
          cache |-> SetSave(made.cache, relative_path_by_uri, uri, made.path)]))

\* URICache.get_or_set: [ok, path, cache, called], called telling whether
\* the download function was invoked
get_or_set(cache, uri, downloaded) ==
    Let1(get(cache, uri), LAMBDA path :
    IF path = NoCachePath
    THEN Let1(set(cache, uri, downloaded), LAMBDA r :
            [ok |-> r.ok, path |-> r.path, cache |-> r.cache, called |-> TRUE])
    ELSE [ok |-> TRUE, path |-> path, cache |-> cache, called |-> FALSE])

\* The mutation of ClearedIndex: every entry is removed, whatever the URI
ClearedIndexOfAll(relative_path_by_uri, uri) == [write |-> TRUE, map |-> <<>>]

\* The index clear writes for the index it loaded, or nothing to write
ClearedIndex(relative_path_by_uri, uri) ==
    IF ~Falsy(uri)
    THEN IF uri \in DOMAIN relative_path_by_uri
         THEN [write |-> TRUE,
               map |-> [u \in (DOMAIN relative_path_by_uri) \ {uri} |->
                           relative_path_by_uri[u]] @@ <<>>]
         ELSE [write |-> FALSE, map |-> <<>>]
    ELSE [write |-> TRUE, map |-> <<>>]

\* URICache.clear: the cache after it
clear(cache, uri) ==
    Let1(_load_relative_path_by_uri(cache), LAMBDA loaded :
    IF ~loaded.ok THEN cache ELSE
    Let1(ClearedIndex(loaded.value, uri), LAMBDA cleared :
        IF cleared.write THEN [cache EXCEPT !.index = IndexOf(cleared.map)]
        ELSE cache))

\* SpecCache: a series of get_or_set, clear(uri) and clear() on one folder.
\* lastSave remembers, for each URI, the path get_or_set returned for it
\* since the URI was last cleared.
MaxDownloads == 3

URIs == {"http://a", "https://b"}

CacheFolders == {"/home/user/.cache/geotable", "cache"}

InitCache ==
    /\ disk \in {CacheOf(folder) : folder \in CacheFolders}
    /\ lastSave = [u \in URIs |-> NoCachePath]
    /\ op = [name |-> "none", uri |-> None, before |-> CacheOf("cache"),
             returned |-> [u \in URIs |-> NoCachePath]]
    /\ ret = [ok |-> TRUE, path |-> NoCachePath, called |-> FALSE]

GetOrSet(uri, downloaded) ==
    /\ disk.made < MaxDownloads
    /\ \E r \in {get_or_set(disk, uri, downloaded)} :
        /\ disk' = r.cache
        /\ ret' = [ok |-> r.ok, path |-> r.path, called |-> r.called]
        /\ lastSave' = IF r.ok /\ lastSave[uri] = NoCachePath
                       THEN [lastSave EXCEPT ![uri] = r.path]
                       ELSE lastSave
    /\ op' = [name |-> "get_or_set", uri |-> uri, before |-> disk,
              returned |-> lastSave]

Clear(uri) ==
    /\ disk' = clear(disk, uri)
    /\ ret' = [ok |-> TRUE, path |-> NoCachePath, called |-> FALSE]
    /\ lastSave' = IF uri = None THEN [u \in URIs |-> NoCachePath]
                   ELSE [lastSave EXCEPT ![uri] = NoCachePath]
    /\ op' = [name |-> "clear", uri |-> uri, before |-> disk,
              returned |-> lastSave]

NextCache ==
    \/ \E uri \in URIs, downloaded \in BOOLEAN : GetOrSet(uri, downloaded)
    \/ \E uri \in URIs \cup {None} : Clear(uri)

SpecCache == InitCache /\ [][NextCache]_vars

\* The URIs of an index
Indexed(cache) == IF cache.index.exists THEN DOMAIN cache.index.map ELSE {}

\* The entries of an index other than that of uri
OtherEntries(cache, uri) ==
    [u \in Indexed(cache) \ {uri} |-> cache.index.map[u]] @@ <<>>

Number(v) == [null |-> FALSE, v |-> v]
NullNumber == [null |-> TRUE, v |-> 0]

\* GeoTable.from_records(records, columns=columns)
from_records(records, columns) ==
    _make_geotable([columns |-> columns, rows |-> records])

\* SpecRecords: a table is made from up to MaxRecords records of coordinates
MaxRecords == 4

CoordinateCells == {Number(0), Number(1), NullNumber}

CoordinateRecords ==
    {("LON" :> x) @@ ("LAT" :> y) : x \in CoordinateCells, y \in CoordinateCells}

InitRecords ==
    /\ disk = EmptyDisk
    /\ lastSave = NoSave
    /\ op \in {[name |-> "table", records |-> records, columns |-> <<"LON", "LAT">>] :
                 records \in SeqsUpTo(CoordinateRecords, MaxRecords)}
    /\ ret = NoRet

FromRecords ==
    /\ op.name = "table"
    /\ op' = [op EXCEPT !.name = "from_records"]
    /\ ret' = from_records(op.records, op.columns)
    /\ UNCHANGED <<disk, lastSave>>

NextRecords == FromRecords

SpecRecords == InitRecords /\ [][NextRecords]_vars

\* The records whose coordinates are both there
WithCoordinates ==
    {i \in 1..Len(op.records) :
        ~op.records[i]["LON"].null /\ ~op.records[i]["LAT"].null}

\* C22: from_records leaves out every record whose coordinates are null:
\* the table has as many rows as there are records with coordinates.
C22_NullRecordsOmitted ==
    op.name = "from_records" =>
        /\ ret.ok
        /\ Len(ret.table.rows) = Cardinality(WithCoordinates)

\* What from_records does: one row per record, in order, a record without
\* coordinates included, with a point of its cells as geometry
C22_EveryRecordKept ==
    op.name = "from_records" =>
        /\ ret.ok
        /\ Len(ret.table.rows) = Len(op.records)
        /\ \A i \in 1..Len(op.records) :
            /\ ret.table.rows[i]["LON"] = op.records[i]["LON"]
            /\ ret.table.rows[i]["LAT"] = op.records[i]["LAT"]
            /\ ret.table.rows[i]["geometry_object"] =
                   Point(op.records[i]["LON"], op.records[i]["LAT"])

\* The four records of test_na_values, the second without coordinates,
\* gave a table of four rows
C22_NullRecordKept ==
    /\ op.name = "from_records"
    /\ Len(op.records) = 4
    /\ WithCoordinates = {1, 3, 4}
    /\ op.records[2]["LON"].null /\ op.records[2]["LAT"].null
    /\ ret.ok
    /\ Len(ret.table.rows) = 4

\* ---------------------------------------------------------------------
\* SpecLayerWriter: one geometry_layer group is written by
\* _prepare_gdal_layer into a dataset just created
\* ---------------------------------------------------------------------
MaxGroupRows == 3

GroupNames == <<"a", "b", "c">>

GroupProj4s == {LONGITUDE_LATITUDE_PROJ4, LONGLAT_ELLPS_PROJ4, UTM17_PROJ4, NaN}

GroupTargets == {None, LONGITUDE_LATITUDE_PROJ4, UTM_PROJ4}

\* The groups of 1..MaxGroupRows rows; the name of a row tells its position
LayerGroups ==
    {[columns |-> <<"name", "geometry_object", "geometry_layer", "geometry_proj4">>,
      rows |-> [i \in 1..n |->
                   [name |-> GroupNames[i], geometry_object |-> gs[i],
                    geometry_layer |-> "a", geometry_proj4 |-> ps[i]]]] :
        n \in 1..MaxGroupRows,
        gs \in [1..MaxGroupRows -> SaveGeometries],
        ps \in [1..MaxGroupRows -> GroupProj4s]}

InitLayerWriter ==
    /\ disk = EmptyDisk
    /\ lastSave = NoSave
    /\ op \in {[name |-> "table", t |-> t, target_proj4 |-> target_proj4,
                driver_name |-> driver_name] :
                 t \in LayerGroups, target_proj4 \in GroupTargets,
                 driver_name \in {"ESRI Shapefile", "GeoJSON"}}
    /\ ret = NoRet

PrepareGdalLayer ==
    /\ op.name = "table"
    /\ op' = [op EXCEPT !.name = "_prepare_gdal_layer"]
    /\ ret' = _prepare_gdal_layer(op.t, Create(op.driver_name), op.target_proj4, "a")
    /\ UNCHANGED <<disk, lastSave>>

NextLayerWriter == PrepareGdalLayer

SpecLayerWriter == InitLayerWriter /\ [][NextLayerWriter]_vars

\* A layer was created (with or without an error later on)
LayerCreated ==
    op.name = "_prepare_gdal_layer" /\ Len(ret.dataset.layers) = 1

\* The CRS the claim gives the layer
ClaimedLayerProj4 ==
    IF op.target_proj4 # None THEN op.target_proj4
    ELSE op.t.rows[1]["geometry_proj4"]

\* The row of the group a feature was made from
RowOf(feature) ==
    CHOOSE i \in 1..Len(op.t.rows) : op.t.rows[i]["name"] = feature.fid["name"]

\* The geometry of the feature is that of its row, in the CRS of the layer
InLayerCrs(feature) ==
    LET row == op.t.rows[RowOf(feature)]
        g == row["geometry_object"]
        shift == Origin(ClaimedLayerProj4) - Origin(row["geometry_proj4"])
    IN  /\ feature.geometry.type = g.type
        /\ feature.geometry.x = g.x + shift
        /\ feature.geometry.y = g.y + shift

\* C23: the layer of a geometry_layer group has the CRS target_proj4, or
\* that of the first row of the group when there is no target; its field
\* definitions are all there whatever number of features was emitted; and
\* every feature of the layer has its geometry in the CRS of the layer.
C23_LayerCrsAndFeatures ==
    LayerCreated =>
        LET layer == ret.dataset.layers[1]
        IN  /\ Proj4Error(ClaimedLayerProj4) = ""
            /\ layer.srs = normalize_proj4(ClaimedLayerProj4)
            /\ layer.fields = <<FieldDefn("name", "OFTString")>>
            /\ \A k \in 1..Len(layer.features) : InLayerCrs(layer.features[k])
            /\ \A j, k \in 1..Len(layer.features) :
                   RowOf(layer.features[j]) = RowOf(layer.features[k]) => j = k

\* A group of rows in longitude-latitude and in UTM, the first in UTM, was
\* written without target: the layer is in UTM and holds three features
C23_Witness ==
    /\ LayerCreated
    /\ ret.error = ""
    /\ op.target_proj4 = None
    /\ op.t.rows[1]["geometry_proj4"] = UTM17_PROJ4
    /\ ret.dataset.layers[1].srs = UTM17_PROJ4
    /\ Len(ret.dataset.layers[1].features) = 3
    /\ \E i \in 2..3 : op.t.rows[i]["geometry_proj4"] = LONGITUDE_LATITUDE_PROJ4

\* The second feature was refused: the layer holds one feature and its fields
C23_WitnessFieldsFirst ==
    /\ LayerCreated
    /\ ret.error = "GeoTableError"
    /\ Len(ret.dataset.layers[1].features) = 1
    /\ Len(ret.dataset.layers[1].fields) = 1

\* ---------------------------------------------------------------------
\* SpecEmit: a table whose rows may lack a CRS or a layer is written once,
\* as CSV or as a vector dataset
\* ---------------------------------------------------------------------
EmitRows ==
    [geometry_object : {Point(0, 1)}, geometry_layer : {"", "a", NaN},
     geometry_proj4 : {LONGITUDE_LATITUDE_PROJ4, UTM17_PROJ4, NaN}]

EmitTables == {GeoTableOf(rows) : rows \in SeqsUpTo(EmitRows, MaxRows)}

EmitTargets == {None, UTM_PROJ4}

EmitCsv(table, target_proj4) ==
    /\ ~lastSave.saved
    /\ SaveCsv(table, X_CSV, target_proj4)

EmitGdal(table, target_path, target_proj4, driver_name) ==
    /\ ~lastSave.saved
    /\ ToGdal(table, target_path, target_proj4, driver_name)

NextEmit ==
    \E table \in EmitTables, target_proj4 \in EmitTargets :
        \/ EmitCsv(table, target_proj4)
        \/ EmitGdal(table, X_ZIP, target_proj4, "ESRI Shapefile")
        \/ EmitGdal(table, D_GEOJSON, target_proj4, "GeoJSON")

SpecEmit == InitShp /\ [][NextEmit]_vars

RECURSIVE SumOf(_)
SumOf(s) == IF s = <<>> THEN 0 ELSE Head(s) + SumOf(Tail(s))

\* The features of a vector dataset
FeatureCount(file) ==
    SumOf([k \in 1..Len(file.layers) |-> Len(file.layers[k].features)])

\* The rows or features of the file the write left at its target
Emitted ==
    LET file == disk[lastSave.target_path]
    IN  IF file.kind = "csv" THEN Len(file.rows)
        ELSE IF file.kind = "gdal" THEN FeatureCount(file)
        ELSE IF file.kind = "archive"
        THEN SumOf([k \in 1..Len(file.members) |->
                       FeatureCount(file.members[k].file)])
        ELSE 0

Wrote == lastSave.saved /\ ret.ok

\* The rows of the table with a CRS, and with a CRS and a layer
RowsWithProj4 ==
    {i \in 1..Len(lastSave.table.rows) :
        lastSave.table.rows[i]["geometry_proj4"] # NaN}

RowsWithProj4AndLayer ==
    {i \in RowsWithProj4 : lastSave.table.rows[i]["geometry_layer"] # NaN}

\* C24: to_csv and to_gdal emit every row of the table exactly once, rows
\* without geometry_proj4 or geometry_layer included.
C24_EveryRowEmitted ==
    Wrote => Emitted = Len(lastSave.table.rows)

\* What is emitted: by to_csv the rows that have a CRS (every row when no row
\* has one), by to_gdal the rows that have a CRS and a layer
C24_RowsOfGroupsEmitted ==
    Wrote =>
        /\ op.name = "save_csv" =>
               Emitted = IF RowsWithProj4 = {} THEN Len(lastSave.table.rows)
                         ELSE Cardinality(RowsWithProj4)
        /\ op.name = "to_gdal" => Emitted = Cardinality(RowsWithProj4AndLayer)

\* A table of two rows, one without CRS, was written and one row came out
C24_RowDropped ==
    /\ Wrote
    /\ Len(lastSave.table.rows) = 2
    /\ Cardinality(RowsWithProj4) = 1
    /\ Emitted = 1

\* A table of two rows in two CRSs and two layers was written in full
C24_AllEmitted ==
    /\ Wrote
    /\ op.name = "to_gdal"
    /\ Len(lastSave.table.rows) = 2
    /\ Cardinality(RowsWithProj4AndLayer) = 2
    /\ lastSave.table.rows[1]["geometry_proj4"] # lastSave.table.rows[2]["geometry_proj4"]
    /\ lastSave.table.rows[1]["geometry_layer"] # lastSave.table.rows[2]["geometry_layer"]
    /\ Emitted = 2

\* ---------------------------------------------------------------------
\* SpecFrame: the decorated operations with the tables as objects.  A heap
\* is the sequence of the table objects there are; an assignment to a
\* column changes the object it is made on, whoever else holds it.
\* ---------------------------------------------------------------------

\* The mutation of copy: the wrapper works on the caller's object
alias(heap, id) == [new |-> id, heap |-> heap]

\* args[0].copy(): a new object with the columns and cells of the old one
copy(heap, id) == [new |-> Len(heap) + 1, heap |-> Append(heap, heap[id])]

\* The object _make_geotable was called on, when it raised: the columns it
\* had assigned by then
FilledBeforeFailure(t) ==
    Let1(IF HasColumn(t, "geometry_proj4") THEN t
         ELSE FillColumn(t, "geometry_proj4", LONGITUDE_LATITUDE_PROJ4), LAMBDA t1 :
        IF HasColumn(t1, "geometry_layer") THEN t1
        ELSE FillColumn(t1, "geometry_layer", ""))

\* _make_geotable(self) on the object id: [ok, heap]
MakeGeotableOn(heap, id) ==
    Let1(_make_geotable(heap[id]), LAMBDA made :
        IF made.ok THEN [ok |-> TRUE, heap |-> [heap EXCEPT ![id] = made.table]]
        ELSE [ok |-> FALSE,
              heap |-> [heap EXCEPT ![id] = FilledBeforeFailure(heap[id])]])

\* wrapped_function up to the call of f: [ok, heap, self], self the object
\* the body is called on
wrapped_function(heap, id, target_path) ==
    Let1(copy(heap, id), LAMBDA copied :
    Let1(MakeGeotableOn(copied.heap, copied.new), LAMBDA made :
    IF ~made.ok THEN [ok |-> FALSE, heap |-> made.heap, self |-> copied.new]
    ELSE IF target_path = NoPath
    THEN [ok |-> TRUE, heap |-> made.heap, self |-> copied.new]
    ELSE [ok |-> TRUE, self |-> copied.new,
          heap |-> [made.heap EXCEPT ![copied.new] =
                       ReplaceEmptyLayer(@, get_file_stem(target_path))]]))

\* The assignments the body of an operation makes on self: to_csv adds the
\* column wkt to a table without rows (t = self; t['wkt'] = '')
BodyOn(heap, self, name) ==
    IF name = "to_csv" /\ Len(heap[self].rows) = 0
    THEN [heap EXCEPT ![self] = FillColumn(@, "wkt", "")]
    ELSE heap

\* The heap after a decorated operation on the object id
HeapAfter(heap, id, name, target_path) ==
    Let1(wrapped_function(heap, id, target_path), LAMBDA wrapped :
        IF ~wrapped.ok THEN wrapped.heap
        ELSE BodyOn(wrapped.heap, wrapped.self, name))

\* The target_path of the operations that have one
TargetOf(name) ==
    CASE name = "to_csv" -> X_CSV
      [] name = "to_gdal" -> X_ZIP
      [] OTHER -> NoPath

\* What the operation returns and the disk it leaves
Operated(folder, t, name) ==
    CASE name = "to_csv" ->
            Let1(to_csv(folder, t, X_CSV, None), LAMBDA saved :
                [disk |-> saved.disk, ok |-> saved.error = ""])
      [] name = "to_gdal" ->
            Let1(to_gdal(folder, t, X_ZIP, None, "ESRI Shapefile"), LAMBDA saved :
                [disk |-> saved.disk, ok |-> saved.error = ""])
      [] name = "draw" -> [disk |-> folder, ok |-> draw(t).ok]
      [] name = "get_geometries" ->
            [disk |-> folder,
             ok |-> get_geometries(t, [i \in 1..Len(t.rows) |-> i], None).ok]
      [] name = "geometries" -> [disk |-> folder, ok |-> geometries(t).ok]

\* The caller holds the table as object 1 and calls the operation on it
CallOn(name) ==
    /\ op.name = "table"
    /\ \E after \in {HeapAfter(<<op.t>>, 1, name, TargetOf(name))} :
        op' = [op EXCEPT !.name = name, !.target_path = TargetOf(name),
                         !.self = Return(after[Len(after)]),
                         !.receiver = after[1]]
    /\ \E done \in {Operated(disk, op.t, name)} :
        /\ disk' = done.disk
        /\ ret' = [ok |-> done.ok]
    /\ UNCHANGED lastSave

InitFrame ==
    /\ disk = ShpDisk
    /\ lastSave = NoSave
    /\ op \in {[name |-> "table", t |-> t, target_path |-> NoPath,
                self |-> Return(t), receiver |-> t] : t \in ReservedTables}
    /\ ret = NoRet

NextFrame == \E name \in DecoratedOperations : CallOn(name)

SpecFrame == InitFrame /\ [][NextFrame]_vars

\* C25: a decorated operation, successful or failed, leaves the table it
\* is called on with the columns and the cells it had, whatever it added
\* or rewrote on its working copy.
C25_ReceiverUnchanged ==
    Decorated =>
        /\ op.receiver.columns = op.t.columns
        /\ op.receiver.rows = op.t.rows

\* to_csv succeeded on a table with two rows and no reserved column: its
\* working copy has them, with the layer of the target
C25_Witness ==
    /\ op.name = "to_csv"
    /\ ret.ok
    /\ Len(op.t.rows) = 2
    /\ Range(op.t.columns) \cap RESERVED_COLUMNS = {}
    /\ RESERVED_COLUMNS \subseteq Range(op.self.table.columns)
    /\ op.self.table.rows[1]["geometry_layer"] = "x"
    /\ op.receiver = op.t

\* An operation failed on a table without geometry after its working copy
\* had got two columns
C25_WitnessFailed ==
    /\ Decorated
    /\ ~ret.ok
    /\ op.t.columns = <<"name">>
    /\ Len(op.self.table.columns) = 3
    /\ op.receiver = op.t

\* to_csv of a table without rows added the column wkt to its working copy
C25_WitnessBody ==
    /\ op.name = "to_csv"
    /\ Len(op.t.rows) = 0
    /\ HasColumn(op.self.table, "wkt")
    /\ ~HasColumn(op.receiver, "wkt")

\* ---------------------------------------------------------------------
\* GeoJSON and KMZ (GeoTable.to_geojson, to_kmz, save_geojson, save_kmz)
\* ---------------------------------------------------------------------

\* The mutation of to_geojson: target_proj4 is handed on
to_geojson_in_target(folder, table, target_path, target_proj4) ==
    to_gdal(folder, table, target_path, target_proj4, "GeoJSON")

\* GeoTable.to_geojson
to_geojson(folder, table, target_path, target_proj4) ==
    to_gdal(folder, table, target_path, LONGITUDE_LATITUDE_PROJ4, "GeoJSON")

\* GeoTable.to_kmz
to_kmz(folder, table, target_path, target_proj4) ==
    to_gdal(folder, table, target_path, LONGITUDE_LATITUDE_PROJ4, "LIBKML")

X_KMZ == Path("x", ".kmz")

KmzDisk == [p \in Paths \cup {X_KMZ} |-> NoFile]

InitGeojson ==
    /\ disk = KmzDisk
    /\ lastSave = NoSave
    /\ op = NoOp
    /\ ret = NoRet

\* table.save_geojson(target_path, target_proj4)
SaveGeojson(table, target_path, target_proj4) ==
    /\ ~lastSave.saved
    /\ \E saved \in {to_geojson(disk, table, target_path, target_proj4)} :
        /\ disk' = saved.disk
        /\ lastSave' = SaveRecord(table, target_path, target_proj4, saved)
        /\ ret' = [ok |-> saved.error = "", error |-> saved.error]
    /\ op' = [name |-> "save_geojson", target_path |-> target_path,
              target_proj4 |-> target_proj4, driver_name |-> "GeoJSON"]

\* table.save_kmz(target_path, target_proj4)
SaveKmz(table, target_path, target_proj4) ==
    /\ ~lastSave.saved
    /\ \E saved \in {to_kmz(disk, table, target_path, target_proj4)} :
        /\ disk' = saved.disk
        /\ lastSave' = SaveRecord(table, target_path, target_proj4, saved)
        /\ ret' = [ok |-> saved.error = "", error |-> saved.error]
    /\ op' = [name |-> "save_kmz", target_path |-> target_path,
              target_proj4 |-> target_proj4, driver_name |-> "LIBKML"]

GeojsonTargets == {None, LONGITUDE_LATITUDE_PROJ4, UTM_PROJ4, "x"}

NextGeojson ==
    \E table \in ShpTables, target_proj4 \in GeojsonTargets :
        \/ SaveGeojson(table, D_GEOJSON, target_proj4)
        \/ SaveKmz(table, X_KMZ, target_proj4)

SpecGeojson == InitGeojson /\ [][NextGeojson]_vars

SavedGeojsonOrKmz == op.name \in {"save_geojson", "save_kmz"}

\* The layers of the file the write left at its target
LayersWritten ==
    LET file == disk[op.target_path]
    IN  IF file.kind = "gdal" THEN file.layers
        ELSE IF file.kind = "archive" THEN file.members[1].file.layers
        ELSE <<>>

\* The geometries of the rows of the table, in longitude-latitude
InLongitudeLatitude ==
    {[type |-> r["geometry_object"].type,
      x |-> r["geometry_object"].x - Origin(r["geometry_proj4"]),
      y |-> r["geometry_object"].y - Origin(r["geometry_proj4"])] :
        r \in Range(_ensure_geotable_columns(lastSave.table, NoPath).table.rows)}

\* What the same call writes when target_proj4 is left out
WithoutTarget ==
    IF op.name = "save_geojson"
    THEN to_geojson(lastSave.before, lastSave.table, op.target_path, None)
    ELSE to_kmz(lastSave.before, lastSave.table, op.target_path, None)

\* C26: save_geojson and save_kmz take no account of target_proj4: the
\* layers and geometries written are in longitude-latitude, and the call
\* leaves what the call without target_proj4 leaves.
C26_TargetIgnored ==
    SavedGeojsonOrKmz =>
        /\ disk = WithoutTarget.disk
        /\ ret.error = WithoutTarget.error
        /\ \A k \in 1..Len(LayersWritten) :
            /\ LayersWritten[k].srs = LONGITUDE_LATITUDE_PROJ4
            /\ \A j \in 1..Len(LayersWritten[k].features) :
                 LET g == LayersWritten[k].features[j].geometry
                 IN  [type |-> g.type, x |-> g.x, y |-> g.y] \in InLongitudeLatitude

\* A row in UTM was saved with target_proj4 in UTM: the feature written has
\* other coordinates than the row, those in longitude-latitude
C26_Witness ==
    /\ SavedGeojsonOrKmz
    /\ ret.ok
    /\ op.target_proj4 = UTM_PROJ4
    /\ Len(lastSave.table.rows) = 1
    /\ HasColumn(lastSave.table, "geometry_proj4")
    /\ lastSave.table.rows[1]["geometry_proj4"] = UTM17_PROJ4
    /\ Len(LayersWritten) = 1
    /\ Len(LayersWritten[1].features) = 1
    /\ LayersWritten[1].features[1].geometry.x =
           lastSave.table.rows[1]["geometry_object"].x - Origin(UTM17_PROJ4)

\* The same as KMZ, with a target_proj4 that is no CRS
C26_WitnessKmz ==
    /\ op.name = "save_kmz"
    /\ ret.ok
    /\ op.target_proj4 = "x"
    /\ Len(LayersWritten) = 2

\* ---------------------------------------------------------------------
\* Two processes on one cache folder (URICache.set, URICache.clear)
\* ---------------------------------------------------------------------
\* A call is a series of steps, each of which reads or writes index.json
\* at most once: set loads the index, makes its file and downloads, then
\* writes the index; clear loads the index, then writes it. Nothing in the
\* class orders the steps of one process against those of another. The
\* write of index.json is taken as one step.
\*   disk      the cache folder
\*   op        for each process, the call it is in and what the call holds
\*   lastSave  the index the calls would have left, had each run alone at
\*             the time of its write, and the number of calls that wrote
\*   ret       the last write of the index
Procs == {1, 2}

MaxClears == 2

Idle == [pc |-> "idle", call |-> "none", uri |-> None, loaded |-> <<>>,
         path |-> NoCachePath]

NoWrite == [call |-> "none", proc |-> 0, uri |-> None, loaded |-> <<>>,
            before |-> <<>>, path |-> NoCachePath]

InitProcs ==
    /\ disk = CacheOf("/home/user/.cache/geotable")
    /\ op = [p \in Procs |-> Idle]
    /\ lastSave = [serial |-> <<>>, sets |-> 0, clears |-> 0]
    /\ ret = NoWrite

\* set, first statement: relative_path_by_uri is loaded, or {}
SetBegin(p, uri) ==
    /\ op[p].pc = "idle"
    /\ disk.made < MaxDownloads
    /\ op' = [op EXCEPT ![p] = [pc |-> "loaded", call |-> "set", uri |-> uri,
                                loaded |-> SetLoad(disk) @@ <<>>,
                                path |-> NoCachePath]]
    /\ UNCHANGED <<disk, lastSave, ret>>

\* set, mkstemp and download(uri, path): the download returns or raises
SetDownload(p, downloaded) ==
    /\ op[p].pc = "loaded"
    /\ op[p].call = "set"
    /\ \E made \in {mkstemp(disk)} :
        /\ disk' = made.cache
        /\ op' = [op EXCEPT ![p] =
                    IF downloaded
                    THEN [@ EXCEPT !.pc = "downloaded", !.path = made.path]
                    ELSE Idle]
    /\ UNCHANGED <<lastSave, ret>>

\* set, last statements: the entry is put into the index loaded in the
\* first statement, and that index is written
SetWrite(p) ==
    /\ op[p].pc = "downloaded"
    /\ disk' = SetSave(disk, op[p].loaded, op[p].uri, op[p].path)
    /\ ret' = [call |-> "set", proc |-> p, uri |-> op[p].uri,
               loaded |-> op[p].loaded, before |-> SetLoad(disk) @@ <<>>,
               path |-> op[p].path]
    /\ lastSave' = [lastSave EXCEPT
                      !.serial = (op[p].uri :> relpath(op[p].path, disk.folder)) @@ @,
                      !.sets = @ + 1]
    /\ op' = [op EXCEPT ![p] = Idle]

\* clear, first statement: the index is loaded, or the call returns
ClearBegin(p, uri) ==
    /\ op[p].pc = "idle"
    /\ lastSave.clears < MaxClears
    /\ \E loaded \in {_load_relative_path_by_uri(disk)} :
        op' = [op EXCEPT ![p] =
                 IF loaded.ok
                 THEN [pc |-> "loaded", call |-> "clear", uri |-> uri,
                       loaded |-> loaded.value @@ <<>>, path |-> NoCachePath]
                 ELSE [Idle EXCEPT !.call = "clear"]]
    /\ UNCHANGED <<disk, lastSave, ret>>

\* clear, the rest: the entry is popped from the index that was loaded (or
\* the index replaced by {}) and the index is written; no entry, no write
ClearWrite(p) ==
    /\ op[p].pc = "loaded"
    /\ op[p].call = "clear"
    /\ \E cleared \in {ClearedIndex(op[p].loaded, op[p].uri)} :
        /\ disk' = IF cleared.write
                   THEN [disk EXCEPT !.index = IndexOf(cleared.map)]
                   ELSE disk
        /\ ret' = IF cleared.write
                  THEN [call |-> "clear", proc |-> p, uri |-> op[p].uri,
                        loaded |-> op[p].loaded,
                        before |-> SetLoad(disk) @@ <<>>, path |-> NoCachePath]
                  ELSE ret
        /\ lastSave' = [lastSave EXCEPT
                          !.serial = ClearedIndex(@, op[p].uri).map,
                          !.clears = @ + 1]
    /\ op' = [op EXCEPT ![p] = Idle]

NextProcs ==
    \E p \in Procs :
        \/ \E uri \in URIs : SetBegin(p, uri)
        \/ \E downloaded \in BOOLEAN : SetDownload(p, downloaded)
        \/ SetWrite(p)
        \/ \E uri \in URIs \cup {None} : ClearBegin(p, uri)
        \/ ClearWrite(p)

SpecProcs == InitProcs /\ [][NextProcs]_vars

AllIdle == \A p \in Procs : op[p].pc = "idle"

\* The index on disk, {} when there is none
IndexOnDisk == SetLoad(disk) @@ <<>>

\* C27: set and clear write the index they loaded in their first statement,
\* with their own change and nothing else: an entry another process wrote
\* between the load and the write is not in the index after the write (a
\* lost update), and an entry another process cleared in between is in the
\* index again.
C27_StaleIndexWritten ==
    /\ ret.call = "set" =>
        /\ IndexOnDisk = (ret.uri :> relpath(ret.path, disk.folder)) @@ ret.loaded
        /\ \A u \in DOMAIN ret.before \ (DOMAIN ret.loaded \cup {ret.uri}) :
             u \notin Indexed(disk)
        /\ \A u \in DOMAIN ret.loaded \ DOMAIN ret.before :
             u \in Indexed(disk)
    /\ ret.call = "clear" =>
        /\ IndexOnDisk = ClearedIndex(ret.loaded, ret.uri).map
        /\ \A u \in DOMAIN ret.before \ DOMAIN ret.loaded :
             u \notin Indexed(disk)

\* Two set calls for the two URLs have returned, no clear was ever called,
\* and the index has one entry
C27_Witness ==
    /\ AllIdle
    /\ lastSave.sets = 2
    /\ lastSave.clears = 0
    /\ DOMAIN lastSave.serial = URIs
    /\ Cardinality(Indexed(disk)) = 1

\* clear(u) has returned, and a set of another URL that had loaded the
\* index before has written the entry of u back
C27_WitnessClearUndone ==
    /\ AllIdle
    /\ lastSave.clears = 1
    /\ ret.call = "set"
    /\ \E u \in URIs \ {ret.uri} :
        /\ u \notin DOMAIN lastSave.serial
        /\ u \in Indexed(disk)
        /\ u \in DOMAIN ret.loaded
        /\ u \notin DOMAIN ret.before

====
